---- MODULE Spec2Model ----
(***************************************************************************)
(* A model of the ABI generation pipeline of packages/js/scripts:          *)
(* naming, module generation, dedup/collision validation, the generation   *)
(* run, manifest diffing, changelog rendering, base-version resolution,    *)
(* glob matching and directory normalisation.                              *)
(*                                                                         *)
(* Strings that the code inspects character by character (identifiers,     *)
(* paths, glob patterns, manifest keys) are sequences of one-character     *)
(* strings.  Text that the code only concatenates and compares (module     *)
(* content, changelog text) is a sequence of string pieces in output       *)
(* order.                                                                  *)
(***************************************************************************)
EXTENDS Integers, Sequences, FiniteSets, TLC

VARIABLES
  pc,            \* position of the running command
  thrown,        \* the error the running command threw, or NoError
  mainSource,    \* config.mainSource (Undefined when unset)
  allArtifacts,  \* generateAbis: allArtifacts
  modules,       \* generateAbis: modules
  deduped,       \* generateAbis: deduped, the result of the dedupe
  warnings,      \* generateAbis: warnings
  outputDir,     \* files under config.outputDir: path -> content
  readme,        \* the export tree written into README.md
  manifestFile,  \* the content of abi-manifest.json
  returned,      \* what generateAbis resolved with
  args,          \* the arguments of the library function under call
  locals,        \* the local variables of an async function under call
  result         \* what the library function returned or threw

genVars == <<mainSource, allArtifacts, modules, deduped, warnings, outputDir,
             readme, manifestFile, returned>>

callVars == <<args, locals, result>>

vars == <<pc, thrown, genVars, callVars>>

\* Markers that no string of characters can equal
Undefined == <<"undefined">>
Null == <<"null">>
NoError == <<>>

----------------------------------------------------------------------------
(* Generic sequence helpers *)

Range(s) == {s[i] : i \in 1..Len(s)}

SeqsUpTo(S, n) == UNION {[1..k -> S] : k \in 0..n}

RECURSIVE Flatten(_)
Flatten(ss) == IF ss = <<>> THEN <<>> ELSE Head(ss) \o Flatten(Tail(ss))

\* Array.prototype.join on sequences of pieces
RECURSIVE JoinWith(_, _)
JoinWith(ss, sep) ==
  IF ss = <<>> THEN <<>>
  ELSE IF Len(ss) = 1 THEN Head(ss)
  ELSE Head(ss) \o sep \o JoinWith(Tail(ss), sep)

\* The characters of s as one TLA+ string
RECURSIVE ToStr(_)
ToStr(s) == IF s = <<>> THEN "" ELSE Head(s) \o ToStr(Tail(s))

----------------------------------------------------------------------------
(* Characters *)

LowerAlpha == <<"a","b","c","d","e","f","g","h","i","j","k","l","m",
                "n","o","p","q","r","s","t","u","v","w","x","y","z">>
UpperAlpha == <<"A","B","C","D","E","F","G","H","I","J","K","L","M",
                "N","O","P","Q","R","S","T","U","V","W","X","Y","Z">>
DigitChars == <<"0","1","2","3","4","5","6","7","8","9">>

IsLower(c) == c \in Range(LowerAlpha)
IsUpper(c) == c \in Range(UpperAlpha)
IsDigit(c) == c \in Range(DigitChars)
IsAlnum(c) == IsLower(c) \/ IsUpper(c) \/ IsDigit(c)

IndexIn(c, alphabet) == CHOOSE i \in 1..Len(alphabet) : alphabet[i] = c

\* String.prototype.toLowerCase / toUpperCase on one ASCII character
toLowerCase(c) == IF IsUpper(c) THEN LowerAlpha[IndexIn(c, UpperAlpha)] ELSE c
toUpperCase(c) == IF IsLower(c) THEN UpperAlpha[IndexIn(c, LowerAlpha)] ELSE c

LowerAll(s) == [i \in 1..Len(s) |-> toLowerCase(s[i])]

----------------------------------------------------------------------------
(* String.prototype.localeCompare (root collation): punctuation sorts     *)
(* before digits, digits before letters, letters by alphabet position     *)
(* whatever their case; strings equal that far are ordered by case,       *)
(* lowercase first.                                                        *)

PunctOrder == <<"_", "-", ":", "/", ".">>

Primary(c) ==
  IF IsAlnum(c)
    THEN IF IsDigit(c) THEN 100 + IndexIn(c, DigitChars)
         ELSE 200 + IndexIn(toLowerCase(c), LowerAlpha)
    ELSE IF c \in Range(PunctOrder) THEN IndexIn(c, PunctOrder) ELSE 0

Tertiary(c) == IF IsUpper(c) THEN 1 ELSE 0

\* Lexicographic comparison of two sequences of integers: -1, 0 or 1
RECURSIVE LexCompare(_, _)
LexCompare(a, b) ==
  IF a = <<>> /\ b = <<>> THEN 0
  ELSE IF a = <<>> THEN -1
  ELSE IF b = <<>> THEN 1
  ELSE IF Head(a) < Head(b) THEN -1
  ELSE IF Head(a) > Head(b) THEN 1
  ELSE LexCompare(Tail(a), Tail(b))

localeCompare(a, b) ==
  LET pa == [i \in 1..Len(a) |-> Primary(a[i])]
      pb == [i \in 1..Len(b) |-> Primary(b[i])]
      ta == [i \in 1..Len(a) |-> Tertiary(a[i])]
      tb == [i \in 1..Len(b) |-> Tertiary(b[i])]
  IN IF LexCompare(pa, pb) # 0 THEN LexCompare(pa, pb) ELSE LexCompare(ta, tb)

----------------------------------------------------------------------------
(* Naming canonicalizer (splitWords, toCamelCase) *)

\* mutant: an uppercase run is never closed
RECURSIVE ReplaceAcronymBoundarySkipped(_)
ReplaceAcronymBoundarySkipped(s) ==
  IF s = <<>> THEN <<>>
  ELSE <<s[1]>> \o ReplaceAcronymBoundarySkipped(Tail(s))

\* .replace(/([A-Z])([A-Z][a-z])/g, "$1 $2")
RECURSIVE ReplaceAcronymBoundary(_)
ReplaceAcronymBoundary(s) ==
  IF s = <<>> THEN <<>>
  ELSE IF Len(s) >= 3 /\ IsUpper(s[1]) /\ IsUpper(s[2]) /\ IsLower(s[3])
    THEN <<s[1], " ", s[2], s[3]>> \o ReplaceAcronymBoundary(SubSeq(s, 4, Len(s)))
  ELSE <<s[1]>> \o ReplaceAcronymBoundary(Tail(s))

\* .replace(/([a-z0-9])([A-Z])/g, "$1 $2")
RECURSIVE ReplaceCamelBoundary(_)
ReplaceCamelBoundary(s) ==
  IF s = <<>> THEN <<>>
  ELSE IF Len(s) >= 2 /\ (IsLower(s[1]) \/ IsDigit(s[1])) /\ IsUpper(s[2])
    THEN <<s[1], " ", s[2]>> \o ReplaceCamelBoundary(SubSeq(s, 3, Len(s)))
  ELSE <<s[1]>> \o ReplaceCamelBoundary(Tail(s))

\* .split(/[^a-zA-Z0-9]+/): the pieces between runs of separators, the
\* empty pieces at either end included
RECURSIVE SplitNonAlnum(_, _, _)
SplitNonAlnum(s, cur, inSep) ==
  IF s = <<>> THEN <<cur>>
  ELSE IF IsAlnum(Head(s)) THEN SplitNonAlnum(Tail(s), Append(cur, Head(s)), FALSE)
  ELSE IF inSep THEN SplitNonAlnum(Tail(s), cur, TRUE)
  ELSE <<cur>> \o SplitNonAlnum(Tail(s), <<>>, TRUE)

\* .filter(Boolean)
FilterNonEmpty(parts) == SelectSeq(parts, LAMBDA p : p # <<>>)

splitWords(input) ==
  LET parts == FilterNonEmpty(
                 SplitNonAlnum(ReplaceCamelBoundary(ReplaceAcronymBoundary(input)),
                               <<>>, FALSE))
  IN [i \in 1..Len(parts) |-> LowerAll(parts[i])]

Capitalize(p) == <<toUpperCase(p[1])>> \o Tail(p)

toCamelCase(input) ==
  LET parts == splitWords(input)
  IN IF Len(parts) = 0 THEN <<"a", "b", "i">>
     ELSE Flatten(<<parts[1]>> \o [i \in 1..(Len(parts) - 1) |-> Capitalize(parts[i + 1])])

toPascalCase(input) ==
  LET parts == splitWords(input)
  IN IF Len(parts) = 0 THEN <<"C", "o", "n", "t", "r", "a", "c", "t">>
     ELSE Flatten([i \in 1..Len(parts) |-> Capitalize(parts[i])])

toKebabCase(input) == JoinWith(splitWords(input), <<"-">>)

----------------------------------------------------------------------------
(* node:path, posix flavour *)

\* String.prototype.split on one separator character
RECURSIVE SplitOn(_, _, _)
SplitOn(s, sep, cur) ==
  IF s = <<>> THEN <<cur>>
  ELSE IF Head(s) = sep THEN <<cur>> \o SplitOn(Tail(s), sep, <<>>)
  ELSE SplitOn(Tail(s), sep, Append(cur, Head(s)))

DotDot == <<".", ".">>

\* normalizeString: drop empty and "." segments, resolve ".." segments
RECURSIVE NormalizeSegments(_, _, _)
NormalizeSegments(segs, res, allowAboveRoot) ==
  IF segs = <<>> THEN res
  ELSE LET seg == Head(segs) rest == Tail(segs)
       IN IF seg = <<>> \/ seg = <<".">> THEN NormalizeSegments(rest, res, allowAboveRoot)
          ELSE IF seg = DotDot
            THEN IF res # <<>> /\ res[Len(res)] # DotDot
                   THEN NormalizeSegments(rest, SubSeq(res, 1, Len(res) - 1), allowAboveRoot)
                 ELSE IF allowAboveRoot
                   THEN NormalizeSegments(rest, Append(res, seg), allowAboveRoot)
                 ELSE NormalizeSegments(rest, res, allowAboveRoot)
          ELSE NormalizeSegments(rest, Append(res, seg), allowAboveRoot)

\* path.posix.normalize
PathNormalize(path) ==
  IF path = <<>> THEN <<".">>
  ELSE LET isAbsolute == path[1] = "/"
           trailingSeparator == path[Len(path)] = "/"
           body == JoinWith(NormalizeSegments(SplitOn(path, "/", <<>>), <<>>, ~isAbsolute),
                            <<"/">>)
       IN IF body = <<>>
            THEN IF isAbsolute THEN <<"/">>
                 ELSE IF trailingSeparator THEN <<".", "/">> ELSE <<".">>
          ELSE (IF isAbsolute THEN <<"/">> ELSE <<>>) \o body
               \o (IF trailingSeparator THEN <<"/">> ELSE <<>>)

\* path.posix.join(a, b)
PathJoin(a, b) ==
  LET nonEmpty == FilterNonEmpty(<<a, b>>)
  IN IF nonEmpty = <<>> THEN <<".">> ELSE PathNormalize(JoinWith(nonEmpty, <<"/">>))

----------------------------------------------------------------------------
(* JSON values and JSON.stringify(value, null, 2)                          *)
(*   <<"s", str>>    a string                                              *)
(*   <<"b", bool>>   a boolean                                             *)
(*   <<"a", items>>  an array, items a sequence of values                  *)
(*   <<"o", props>>  an object, props a sequence of <<key, value>> in      *)
(*                   insertion order, keys distinct                        *)
(* The text is the sequence of its pieces in output order.                 *)

JStr(x) == <<"s", x>>
JBool(x) == <<"b", x>>
JArr(x) == <<"a", x>>
JObj(x) == <<"o", x>>

RECURSIVE Spaces(_)
Spaces(n) == IF n = 0 THEN "" ELSE " " \o Spaces(n - 1)

\* the escapes JSON.stringify writes inside a string literal
RECURSIVE EscapeJson(_)
EscapeJson(x) ==
  IF x = "" THEN ""
  ELSE LET c == SubSeq(x, 1, 1)
           rest == EscapeJson(SubSeq(x, 2, Len(x)))
       IN CASE c = "\"" -> "\\\"" \o rest
            [] c = "\\" -> "\\\\" \o rest
            [] c = "\n" -> "\\n" \o rest
            [] c = "\t" -> "\\t" \o rest
            [] c = "\r" -> "\\r" \o rest
            [] OTHER -> c \o rest

Quote(x) == "\"" \o EscapeJson(x) \o "\""

RECURSIVE Stringify(_, _)
RECURSIVE StringifyItems(_, _)
RECURSIVE StringifyProps(_, _)

\* the elements of an array, each on its own line at depth `indent`
StringifyItems(items, indent) ==
  IF items = <<>> THEN <<>>
  ELSE <<"\n" \o Spaces(indent)>> \o Stringify(Head(items), indent)
       \o (IF Len(items) > 1 THEN <<",">> ELSE <<>>)
       \o StringifyItems(Tail(items), indent)

\* the properties of an object, in insertion order
StringifyProps(props, indent) ==
  IF props = <<>> THEN <<>>
  ELSE <<"\n" \o Spaces(indent), Quote(Head(props)[1]), ": ">>
       \o Stringify(Head(props)[2], indent)
       \o (IF Len(props) > 1 THEN <<",">> ELSE <<>>)
       \o StringifyProps(Tail(props), indent)

Stringify(value, indent) ==
  CASE value[1] = "s" -> <<Quote(value[2])>>
    [] value[1] = "null" -> <<"null">>
    [] value[1] = "b" -> <<IF value[2] THEN "true" ELSE "false">>
    [] value[1] = "a" ->
         IF value[2] = <<>> THEN <<"[]">>
         ELSE <<"[">> \o StringifyItems(value[2], indent + 2)
              \o <<"\n" \o Spaces(indent), "]">>
    [] value[1] = "o" ->
         IF value[2] = <<>> THEN <<"{}">>
         ELSE <<"{">> \o StringifyProps(value[2], indent + 2)
              \o <<"\n" \o Spaces(indent), "}">>

----------------------------------------------------------------------------
(* Module generator *)

RootDir == <<".">>
TsExt == <<".", "t", "s">>
AbiSuffix == <<"A", "b", "i">>

DedupeKey(sourceId, contractName) == sourceId \o <<":">> \o contractName

ModuleContent(exportName, abi) ==
  <<"export const ", ToStr(exportName), " = ">>
  \o Stringify(JArr(abi), 0)
  \o <<" as const;\n\nexport default ", ToStr(exportName), ";\n">>

\* mutant: the main source is nested under its id like every other source
artifactToModuleAlwaysPrefixed(artifact, main) ==
  LET exportName == toCamelCase(artifact.contractName) \o AbiSuffix
      fileName == toCamelCase(artifact.contractName) \o TsExt
      innerPath == IF artifact.relDir = RootDir THEN fileName
                   ELSE PathJoin(artifact.relDir, fileName)
  IN [sourceId |-> artifact.sourceId,
      contractName |-> artifact.contractName,
      exportName |-> exportName,
      moduleRelPath |-> PathJoin(artifact.sourceId, innerPath),
      dedupeKey |-> DedupeKey(artifact.sourceId, artifact.contractName),
      moduleContent |-> ModuleContent(exportName, artifact.abi)]

artifactToModule(artifact, main) ==
  LET exportName == toCamelCase(artifact.contractName) \o AbiSuffix
      fileName == toCamelCase(artifact.contractName) \o TsExt
      innerPath == IF artifact.relDir = RootDir THEN fileName
                   ELSE PathJoin(artifact.relDir, fileName)
      isMain == main # Undefined /\ artifact.sourceId = main
      moduleRelPath == IF isMain THEN innerPath ELSE PathJoin(artifact.sourceId, innerPath)
  IN [sourceId |-> artifact.sourceId,
      contractName |-> artifact.contractName,
      exportName |-> exportName,
      moduleRelPath |-> moduleRelPath,
      dedupeKey |-> DedupeKey(artifact.sourceId, artifact.contractName),
      moduleContent |-> ModuleContent(exportName, artifact.abi)]

----------------------------------------------------------------------------
(* Dedup/collision validator *)

\* byKey is the Map's values in insertion order
ByKeyHas(byKey, key) == \E i \in 1..Len(byKey) : byKey[i].dedupeKey = key
ByKeyGet(byKey, key) == byKey[CHOOSE i \in 1..Len(byKey) : byKey[i].dedupeKey = key]

DuplicateWarning(key) == <<"Duplicate ABI ignored for ", ToStr(key)>>
CollisionError(key) ==
  <<"ABI collision for ", ToStr(key),
    ": same source and contractName produced different ABI content">>

\* the comparator of the final sort
ModuleCompare(a, b) ==
  IF localeCompare(a.sourceId, b.sourceId) # 0
    THEN localeCompare(a.sourceId, b.sourceId)
  ELSE IF localeCompare(a.contractName, b.contractName) # 0
    THEN localeCompare(a.contractName, b.contractName)
  ELSE localeCompare(a.moduleRelPath, b.moduleRelPath)

\* Array.prototype.sort (stable) with ModuleCompare
RECURSIVE InsertModule(_, _)
InsertModule(sorted, m) ==
  IF sorted = <<>> THEN <<m>>
  ELSE IF ModuleCompare(m, Head(sorted)) < 0 THEN <<m>> \o sorted
  ELSE <<Head(sorted)>> \o InsertModule(Tail(sorted), m)

\* mutant: the final sort left out
SortModulesOmitted(mods, sorted) == sorted \o mods

RECURSIVE SortModules(_, _)
SortModules(mods, sorted) ==
  IF mods = <<>> THEN sorted
  ELSE SortModules(Tail(mods), InsertModule(sorted, Head(mods)))

\* the for loop of dedupeAndValidateModules, then the sort
RECURSIVE DedupeLoop(_, _, _)
DedupeLoop(mods, byKey, warns) ==
  IF mods = <<>>
    THEN [error |-> NoError, modules |-> SortModules(byKey, <<>>), warnings |-> warns]
  ELSE LET mod == Head(mods)
       IN IF ~ByKeyHas(byKey, mod.dedupeKey)
            THEN DedupeLoop(Tail(mods), Append(byKey, mod), warns)
          ELSE IF ByKeyGet(byKey, mod.dedupeKey).moduleContent = mod.moduleContent
            THEN DedupeLoop(Tail(mods), byKey, Append(warns, DuplicateWarning(mod.dedupeKey)))
          ELSE [error |-> CollisionError(mod.dedupeKey), modules |-> <<>>,
                warnings |-> <<>>]  \* thrown: nothing is returned

\* mutant: differing content under one key is dropped like a duplicate
RECURSIVE DedupeLoopNoThrow(_, _, _)
DedupeLoopNoThrow(mods, byKey, warns) ==
  IF mods = <<>>
    THEN [error |-> NoError, modules |-> SortModules(byKey, <<>>), warnings |-> warns]
  ELSE IF ~ByKeyHas(byKey, Head(mods).dedupeKey)
    THEN DedupeLoopNoThrow(Tail(mods), Append(byKey, Head(mods)), warns)
  ELSE DedupeLoopNoThrow(Tail(mods), byKey,
                         Append(warns, DuplicateWarning(Head(mods).dedupeKey)))

dedupeNoThrow(mods) == DedupeLoopNoThrow(mods, <<>>, <<>>)

dedupeAndValidateModules(mods) == DedupeLoop(mods, <<>>, <<>>)

----------------------------------------------------------------------------
(* The generation run (generateAbis) *)

MaxArtifacts == 3

SrcA == <<"a">>
SrcB == <<"b">>
NameAlpha == <<"A", "l", "p", "h", "a">>
NameBeta == <<"B", "e", "t", "a">>
NameAlphaLower == <<"a", "l", "p", "h", "a">>
DirTokens == <<"t", "o", "k", "e", "n", "s">>
DirPolRewards == <<"p", "o", "l", "/", "r", "e", "w", "a", "r", "d", "s">>

\* interface arrays: the same item with two key orders, and a different item
AbiName == <<JObj(<< <<"type", JStr("function")>>, <<"name", JStr("name")>> >>)>>
AbiNameReordered == <<JObj(<< <<"name", JStr("name")>>, <<"type", JStr("function")>> >>)>>
AbiSymbol == <<JObj(<< <<"type", JStr("function")>>, <<"name", JStr("symbol")>> >>)>>

Artifact(sourceId, contractName, relDir, abi) ==
  [sourceId |-> sourceId, contractName |-> contractName, relDir |-> relDir, abi |-> abi]

\* the artifacts a run may discover
ArtifactPool ==
  { Artifact(SrcA, NameAlpha, RootDir, AbiName),
    Artifact(SrcA, NameAlpha, DirTokens, AbiName),
    Artifact(SrcA, NameAlpha, RootDir, AbiNameReordered),
    Artifact(SrcA, NameAlpha, RootDir, AbiSymbol),
    Artifact(SrcB, NameAlpha, RootDir, AbiSymbol),
    Artifact(SrcA, NameBeta, DirPolRewards, AbiName),
    Artifact(SrcB, NameBeta, RootDir, AbiName),
    Artifact(SrcA, NameAlphaLower, RootDir, AbiSymbol) }

MainSources == {Undefined, SrcA, SrcB}

\* what is on disk before the run
StalePath == <<"o", "l", "d", ".", "t", "s">>
StaleFiles == [p \in {StalePath} |-> <<"stale">>]
ReadmeBefore == <<"readme before the run">>
ManifestBefore == <<"manifest before the run">>

\* no library function is under call
NoCall ==
  /\ args = <<>>
  /\ locals = <<>>
  /\ result = <<>>

InitGen ==
  /\ NoCall
  /\ pc = "collect"
  /\ thrown = NoError
  /\ mainSource \in MainSources
  /\ allArtifacts = <<>>
  /\ modules = <<>>
  /\ deduped = [modules |-> <<>>, warnings |-> <<>>]
  /\ warnings = <<>>
  /\ outputDir = StaleFiles
  /\ readme = ReadmeBefore
  /\ manifestFile = ManifestBefore
  /\ returned = Undefined

\* the source loop pushes the artifacts a source's discovery returned
CollectArtifact ==
  /\ pc = "collect"
  /\ Len(allArtifacts) < MaxArtifacts
  /\ \E a \in ArtifactPool : allArtifacts' = Append(allArtifacts, a)
  /\ UNCHANGED <<callVars, pc, thrown, mainSource, modules, deduped, warnings, outputDir,
                 readme, manifestFile, returned>>

\* allArtifacts.map(artifactToModule), dedupeAndValidateModules, warnings.push
GenerateModules ==
  /\ pc = "collect"
  /\ LET mods == [i \in 1..Len(allArtifacts) |->
                    artifactToModule(allArtifacts[i], mainSource)]
         outcome == dedupeAndValidateModules(mods)
     IN /\ modules' = mods
        /\ IF outcome.error # NoError
             THEN /\ thrown' = outcome.error
                  /\ pc' = "failed"
                  /\ UNCHANGED <<deduped, warnings>>
             ELSE /\ deduped' = [modules |-> outcome.modules, warnings |-> outcome.warnings]
                  /\ warnings' = warnings \o outcome.warnings
                  /\ pc' = "write"
                  /\ UNCHANGED thrown
  /\ UNCHANGED <<callVars, mainSource, allArtifacts, outputDir, readme, manifestFile, returned>>

\* fs.rm + fs.mkdir, then one fs.writeFile per module, in order
RECURSIVE WriteFiles(_, _)
WriteFiles(files, mods) ==
  IF mods = <<>> THEN files
  ELSE LET m == Head(mods)
           p == PathNormalize(m.moduleRelPath)
       IN WriteFiles([q \in DOMAIN files \cup {p} |->
                        IF q = p THEN m.moduleContent ELSE files[q]],
                     Tail(mods))

EmptyDir == [p \in {} |-> <<>>]

writeGeneratedFiles ==
  /\ pc = "write"
  /\ outputDir' = WriteFiles(EmptyDir, deduped.modules)
  /\ pc' = "readme"
  /\ UNCHANGED <<callVars, thrown, mainSource, allArtifacts, modules, deduped, warnings,
                 readme, manifestFile, returned>>

\* mod.moduleRelPath.replace(/\.ts$/, "")
StripTs(path) ==
  IF Len(path) >= Len(TsExt) /\ SubSeq(path, Len(path) - Len(TsExt) + 1, Len(path)) = TsExt
    THEN SubSeq(path, 1, Len(path) - Len(TsExt))
    ELSE path

\* the README is rewritten when it is readable and holds both markers
updateReadmeTree ==
  /\ pc = "readme"
  /\ \/ readme' = <<"export tree">> \o [i \in 1..Len(deduped.modules) |->
                                          ToStr(StripTs(deduped.modules[i].moduleRelPath))]
     \/ UNCHANGED readme
  /\ pc' = "manifest"
  /\ UNCHANGED <<callVars, thrown, mainSource, allArtifacts, modules, deduped, warnings,
                 outputDir, manifestFile, returned>>

\* fs.writeFile("abi-manifest.json"): the export paths the manifest is keyed by
WriteManifest ==
  /\ pc = "manifest"
  /\ manifestFile' = <<"manifest">> \o [i \in 1..Len(deduped.modules) |->
                                          ToStr(StripTs(deduped.modules[i].moduleRelPath))]
  /\ pc' = "return"
  /\ UNCHANGED <<callVars, thrown, mainSource, allArtifacts, modules, deduped, warnings,
                 outputDir, readme, returned>>

ReturnResult ==
  /\ pc = "return"
  /\ returned' = [moduleCount |-> Len(deduped.modules), artifactCount |-> Len(allArtifacts),
                  warnings |-> warnings]
  /\ pc' = "done"
  /\ UNCHANGED <<callVars, thrown, mainSource, allArtifacts, modules, deduped, warnings,
                 outputDir, readme, manifestFile>>

NextGen ==
  \/ CollectArtifact
  \/ GenerateModules
  \/ writeGeneratedFiles
  \/ updateReadmeTree
  \/ WriteManifest
  \/ ReturnResult

SpecGen == InitGen /\ [][NextGen]_vars

----------------------------------------------------------------------------
(* Claims about the dedup/collision validator and the generation run *)

SameKeyPairs(mods) ==
  {<<i, j>> \in (1..Len(mods)) \X (1..Len(mods)) :
     i < j /\ mods[i].dedupeKey = mods[j].dedupeKey}

CollidingPairs(mods) ==
  {ij \in SameKeyPairs(mods) : mods[ij[1]].moduleContent # mods[ij[2]].moduleContent}

DedupeRan == pc # "collect"

NothingWritten ==
  /\ outputDir = StaleFiles
  /\ readme = ReadmeBefore
  /\ manifestFile = ManifestBefore

\* C1: when two modules handed to dedupe share a dedup key and differ in
\* content, dedupe throws a collision error naming such a key and returns no
\* module list, and the run stops with the output directory, the README and
\* the manifest as they were before the run.
C1_CollisionStopsRun ==
  (DedupeRan /\ CollidingPairs(modules) # {}) =>
     /\ pc = "failed"
     /\ \E ij \in CollidingPairs(modules) :
          thrown = CollisionError(modules[ij[2]].dedupeKey)
     /\ deduped.modules = <<>>
     /\ returned = Undefined
     /\ NothingWritten

C1_Witness ==
  /\ pc = "failed"
  /\ Len(modules) = MaxArtifacts
  /\ CollidingPairs(modules) # {}
  /\ SameKeyPairs(modules) # CollidingPairs(modules)

FirstIndexOf(mods, key) ==
  CHOOSE i \in 1..Len(mods) :
    /\ mods[i].dedupeKey = key
    /\ \A j \in 1..(i - 1) : mods[j].dedupeKey # key

KeysOf(mods) == {mods[i].dedupeKey : i \in 1..Len(mods)}

CountKey(mods, key) == Cardinality({i \in 1..Len(mods) : mods[i].dedupeKey = key})

CountWarning(warns, w) == Cardinality({i \in 1..Len(warns) : warns[i] = w})

\* C2: when all modules sharing a dedup key have identical content, dedupe
\* returns exactly one module per distinct key, the first occurrence in
\* input order, sorted by (sourceId, contractName, moduleRelPath), with one
\* "duplicate ignored" warning per dropped module: as many warnings as
\* inputs minus outputs, and none when all keys are distinct.
C2_DedupeKeepsFirstSorted ==
  (DedupeRan /\ CollidingPairs(modules) = {}) =>
     LET out == deduped.modules
         warns == deduped.warnings
     IN /\ thrown = NoError
        /\ KeysOf(out) = KeysOf(modules)
        /\ Len(out) = Cardinality(KeysOf(modules))
        /\ \A k \in 1..Len(out) :
             out[k] = modules[FirstIndexOf(modules, out[k].dedupeKey)]
        /\ \A i, j \in 1..Len(out) : i < j => ModuleCompare(out[i], out[j]) < 0
        /\ Len(warns) = Len(modules) - Len(out)
        /\ \A key \in KeysOf(modules) :
             CountWarning(warns, DuplicateWarning(key)) = CountKey(modules, key) - 1
        /\ (SameKeyPairs(modules) = {} => warns = <<>> /\ Len(out) = Len(modules))

\* a duplicate was dropped, its first occurrence kept, and the sort moved a module
C2_Witness ==
  /\ pc = "done"
  /\ Len(modules) = MaxArtifacts
  /\ Len(deduped.modules) = 2
  /\ Len(deduped.warnings) = 1
  /\ deduped.modules[1] # modules[1]
  /\ \E ij \in SameKeyPairs(modules) :
       modules[ij[1]].moduleRelPath # modules[ij[2]].moduleRelPath

\* two JSON values are equal whatever the insertion order of object keys
RECURSIVE JsonEqual(_, _)
JsonEqual(v, w) ==
  IF v[1] # w[1] THEN FALSE
  ELSE IF v[1] = "a"
    THEN /\ Len(v[2]) = Len(w[2])
         /\ \A i \in 1..Len(v[2]) : JsonEqual(v[2][i], w[2][i])
  ELSE IF v[1] = "o"
    THEN /\ {v[2][i][1] : i \in 1..Len(v[2])} = {w[2][i][1] : i \in 1..Len(w[2])}
         /\ \A i \in 1..Len(v[2]) : \A j \in 1..Len(w[2]) :
              v[2][i][1] = w[2][j][1] => JsonEqual(v[2][i][2], w[2][j][2])
  ELSE v[2] = w[2]

\* pairs of artifacts of one source and contract name whose interface arrays
\* are equal as JSON values
JsonEqualPairs ==
  {ij \in SameKeyPairs(modules) :
     /\ allArtifacts[ij[1]].sourceId = allArtifacts[ij[2]].sourceId
     /\ allArtifacts[ij[1]].contractName = allArtifacts[ij[2]].contractName
     /\ JsonEqual(JArr(allArtifacts[ij[1]].abi), JArr(allArtifacts[ij[2]].abi))}

\* C4: two artifacts with the same source id and contract name whose
\* interface arrays are equal as JSON values get identical content, whatever
\* the insertion order of object keys, and dedupe treats the pair as a
\* duplicate, not as a collision.
C4_ContentIgnoresKeyOrder ==
  DedupeRan =>
     /\ \A ij \in JsonEqualPairs :
          modules[ij[1]].moduleContent = modules[ij[2]].moduleContent
     /\ (SameKeyPairs(modules) = JsonEqualPairs => thrown = NoError)

----------------------------------------------------------------------------
(* artifactToModule on its own: one artifact, one optional main source *)

MaxNameLen == 3

NameChars == {"A", "B", "c", "2", "_"}
ContractNames == SeqsUpTo(NameChars, MaxNameLen) \ {<<>>}
SrcNested == <<"g", "/", "v">>
SourceIds == {SrcA, SrcB, SrcNested}
RelDirs == {RootDir, DirTokens, DirPolRewards}

InitModule ==
  /\ NoCall
  /\ pc = "artifact"
  /\ thrown = NoError
  /\ mainSource \in MainSources
  /\ \E sourceId \in SourceIds, contractName \in ContractNames, relDir \in RelDirs :
       allArtifacts = <<Artifact(sourceId, contractName, relDir, AbiName)>>
  /\ modules = <<>>
  /\ deduped = [modules |-> <<>>, warnings |-> <<>>]
  /\ warnings = <<>>
  /\ outputDir = StaleFiles
  /\ readme = ReadmeBefore
  /\ manifestFile = ManifestBefore
  /\ returned = Undefined

ToModule ==
  /\ pc = "artifact"
  /\ modules' = <<artifactToModule(allArtifacts[1], mainSource)>>
  /\ pc' = "module"
  /\ UNCHANGED <<callVars, thrown, mainSource, allArtifacts, deduped, warnings, outputDir,
                 readme, manifestFile, returned>>

NextModule == ToModule

SpecModule == InitModule /\ [][NextModule]_vars

\* C3: the export identifier is toCamel(contractName) + "Abi"; the file is
\* toCamel(contractName) + ".ts", directly under the prefix when relDir is
\* "." and under relDir/ otherwise; the prefix is empty when the artifact's
\* source id equals the main source id and sourceId/ in every other case,
\* an unset main source included; the dedup key is sourceId:contractName.
C3_ModuleNaming ==
  pc = "module" =>
    LET artifact == allArtifacts[1]
        mod == modules[1]
        camel == toCamelCase(artifact.contractName)
        prefix == IF artifact.sourceId = mainSource THEN <<>>
                  ELSE artifact.sourceId \o <<"/">>
        dir == IF artifact.relDir = RootDir THEN <<>> ELSE artifact.relDir \o <<"/">>
    IN /\ mod.exportName = camel \o <<"A", "b", "i">>
       /\ mod.moduleRelPath = prefix \o dir \o camel \o <<".", "t", "s">>
       /\ mod.dedupeKey = artifact.sourceId \o <<":">> \o artifact.contractName
       /\ mod.sourceId = artifact.sourceId
       /\ mod.contractName = artifact.contractName

\* a multi-word name in a nested directory of the main source
C3_Witness ==
  /\ pc = "module"
  /\ mainSource = SrcA
  /\ allArtifacts[1].sourceId = SrcA
  /\ allArtifacts[1].relDir = DirPolRewards
  /\ allArtifacts[1].contractName = <<"A", "B", "c">>
  /\ modules[1].moduleRelPath = DirPolRewards \o <<"/", "a", "B", "c", ".", "t", "s">>

----------------------------------------------------------------------------
(* Manifest differ (diffManifests) and changelog renderer (renderChangelog) *)
(* A manifest is the sequence of its <<key, signatures>> entries in         *)
(* property insertion order, keys distinct.  A diff is a record of added,   *)
(* removed (lists of keys) and changed, the sequence of the Map's           *)
(* <<key, [added, removed]>> entries in insertion order.                    *)

\* UTF-16 code unit of a character: the order of Array.prototype.sort()
CodeUnit(c) ==
  IF IsDigit(c) THEN 47 + IndexIn(c, DigitChars)
  ELSE IF IsUpper(c) THEN 64 + IndexIn(c, UpperAlpha)
  ELSE IF IsLower(c) THEN 96 + IndexIn(c, LowerAlpha)
  ELSE CASE c = " " -> 32 [] c = "(" -> 40 [] c = ")" -> 41 [] c = "," -> 44
         [] c = "-" -> 45 [] c = "." -> 46 [] c = "/" -> 47 [] c = ":" -> 58
         [] c = "[" -> 91 [] c = "]" -> 93
         [] c = "_" -> 95 [] OTHER -> 127

CodeUnitCompare(a, b) ==
  LexCompare([i \in 1..Len(a) |-> CodeUnit(a[i])], [i \in 1..Len(b) |-> CodeUnit(b[i])])

\* Array.prototype.sort() without comparator
RECURSIVE InsertString(_, _)
InsertString(sorted, x) ==
  IF sorted = <<>> THEN <<x>>
  ELSE IF CodeUnitCompare(x, Head(sorted)) < 0 THEN <<x>> \o sorted
  ELSE <<Head(sorted)>> \o InsertString(Tail(sorted), x)

RECURSIVE SortStrings(_)
SortStrings(list) ==
  IF list = <<>> THEN <<>>
  ELSE InsertString(SortStrings(SubSeq(list, 1, Len(list) - 1)), list[Len(list)])

\* mutant: the last property is not enumerated
ObjectKeysDropLast(manifest) == [i \in 1..(Len(manifest) - 1) |-> manifest[i][1]]

\* Object.keys(manifest)
ObjectKeys(manifest) == [i \in 1..Len(manifest) |-> manifest[i][1]]

\* manifest[key], for a key the manifest has
ManifestGet(manifest, key) ==
  manifest[CHOOSE i \in 1..Len(manifest) : manifest[i][1] = key][2]

\* [...new Set(list)]: the distinct elements in first-occurrence order
RECURSIVE UniqueInOrder(_)
UniqueInOrder(list) ==
  IF list = <<>> THEN <<>>
  ELSE LET init == UniqueInOrder(SubSeq(list, 1, Len(list) - 1))
           last == list[Len(list)]
       IN IF last \in Range(init) THEN init ELSE Append(init, last)

\* mutant: the filter keeps everything
OnlyInUnfiltered(xs, ys) == xs

\* [...xs].filter((x) => !ys.has(x))
OnlyIn(xs, ys) == SelectSeq(xs, LAMBDA x : x \notin Range(ys))

\* mutant: a key that only lost signatures is not recorded
RECURSIVE ChangedEntriesAddedOnly(_, _, _, _)
ChangedEntriesAddedOnly(keys, prevKeys, previous, current) ==
  IF keys = <<>> THEN <<>>
  ELSE LET key == Head(keys)
           rest == ChangedEntriesAddedOnly(Tail(keys), prevKeys, previous, current)
       IN IF key \notin Range(prevKeys) THEN rest
          ELSE LET prevSigs == UniqueInOrder(ManifestGet(previous, key))
                   currSigs == UniqueInOrder(ManifestGet(current, key))
                   itemsAdded == SortStrings(OnlyIn(currSigs, prevSigs))
                   itemsRemoved == SortStrings(OnlyIn(prevSigs, currSigs))
               IN IF Len(itemsAdded) > 0
                    THEN <<<<key, [added |-> itemsAdded, removed |-> itemsRemoved]>>>> \o rest
                    ELSE rest

\* the for loop over currKeys that fills the changed Map
RECURSIVE ChangedEntries(_, _, _, _)
ChangedEntries(keys, prevKeys, previous, current) ==
  IF keys = <<>> THEN <<>>
  ELSE LET key == Head(keys)
           rest == ChangedEntries(Tail(keys), prevKeys, previous, current)
       IN IF key \notin Range(prevKeys) THEN rest
          ELSE LET prevSigs == UniqueInOrder(ManifestGet(previous, key))
                   currSigs == UniqueInOrder(ManifestGet(current, key))
                   itemsAdded == SortStrings(OnlyIn(currSigs, prevSigs))
                   itemsRemoved == SortStrings(OnlyIn(prevSigs, currSigs))
               IN IF Len(itemsAdded) > 0 \/ Len(itemsRemoved) > 0
                    THEN <<<<key, [added |-> itemsAdded, removed |-> itemsRemoved]>>>> \o rest
                    ELSE rest

diffManifests(previous, current) ==
  LET prevKeys == UniqueInOrder(ObjectKeys(previous))
      currKeys == UniqueInOrder(ObjectKeys(current))
  IN [added |-> SortStrings(OnlyIn(currKeys, prevKeys)),
      removed |-> SortStrings(OnlyIn(prevKeys, currKeys)),
      changed |-> ChangedEntries(currKeys, prevKeys, previous, current)]

isEmptyDiff(diff) ==
  Len(diff.added) = 0 /\ Len(diff.removed) = 0 /\ Len(diff.changed) = 0

\* [...diff.changed.entries()].sort((a, b) => a[0].localeCompare(b[0]))
RECURSIVE InsertEntry(_, _)
InsertEntry(sorted, e) ==
  IF sorted = <<>> THEN <<e>>
  ELSE IF localeCompare(e[1], Head(sorted)[1]) < 0 THEN <<e>> \o sorted
  ELSE <<Head(sorted)>> \o InsertEntry(Tail(sorted), e)

RECURSIVE SortEntries(_)
SortEntries(entries) ==
  IF entries = <<>> THEN <<>>
  ELSE InsertEntry(SortEntries(SubSeq(entries, 1, Len(entries) - 1)), entries[Len(entries)])

\* Text is a sequence of pieces; every line break is a piece "\n" of its own.
Newline == "\n"

\* mutant: trailing line breaks are kept
TrimEndOmitted(text) == text

\* String.prototype.trimEnd
RECURSIVE TrimEnd(_)
TrimEnd(text) ==
  IF text # <<>> /\ text[Len(text)] \in {Newline, "", " "}
    THEN TrimEnd(SubSeq(text, 1, Len(text) - 1))
    ELSE text

\* the backtick character (U+0060), which a TLA+ string cannot hold
Backtick == "<backtick>"

\* one list item: a dash and the path or signature between backticks
Bullet(p) == <<"- ", Backtick, ToStr(p), Backtick>>

BulletLines(list) == [i \in 1..Len(list) |-> Bullet(list[i])]

\* the lines pushed for one entry of the changed Map
ChangedLines(entry) ==
  <<<<"#### ", Backtick, ToStr(entry[1]), Backtick, Newline>>>>
  \o (IF Len(entry[2].added) > 0
        THEN <<<<"**Added:**", Newline>>>> \o BulletLines(entry[2].added) \o <<<<>>>>
        ELSE <<>>)
  \o (IF Len(entry[2].removed) > 0
        THEN <<<<"**Removed:**", Newline>>>> \o BulletLines(entry[2].removed) \o <<<<>>>>
        ELSE <<>>)

ChangedSection(changed) ==
  LET entries == SortEntries(changed)
      lines == <<<<"### Changed", Newline>>>>
               \o Flatten([i \in 1..Len(entries) |-> ChangedLines(entries[i])])
  IN TrimEnd(JoinWith(lines, <<Newline>>))

renderChangelog(diff) ==
  IF isEmptyDiff(diff) THEN <<>>
  ELSE LET sections ==
             (IF Len(diff.added) > 0
                THEN <<<<"### Added", Newline, Newline>>
                       \o JoinWith(BulletLines(diff.added), <<Newline>>)>>
                ELSE <<>>)
             \o (IF Len(diff.removed) > 0
                   THEN <<<<"### Removed", Newline, Newline>>
                          \o JoinWith(BulletLines(diff.removed), <<Newline>>)>>
                   ELSE <<>>)
             \o (IF Len(diff.changed) > 0 THEN <<ChangedSection(diff.changed)>> ELSE <<>>)
       IN JoinWith(sections, <<Newline, Newline>>) \o <<Newline>>

----------------------------------------------------------------------------
(* diffManifests and renderChangelog under call *)

MaxSigs == 2
MaxPaths == 2

\* no generation run is in progress
NoRun ==
  /\ thrown = NoError
  /\ mainSource = Undefined
  /\ allArtifacts = <<>>
  /\ modules = <<>>
  /\ deduped = [modules |-> <<>>, warnings |-> <<>>]
  /\ warnings = <<>>
  /\ outputDir = StaleFiles
  /\ readme = ReadmeBefore
  /\ manifestFile = ManifestBefore
  /\ returned = Undefined

KeyA == <<"a">>
KeyB == <<"B">>
ManifestKeys == {KeyA, KeyB}
SigF == <<"f">>
SigG == <<"g">>
Signatures == {SigF, SigG}
SignatureLists == SeqsUpTo(Signatures, MaxSigs)

DistinctKeys(entries) ==
  \A i, j \in 1..Len(entries) : entries[i][1] = entries[j][1] => i = j

\* every manifest over ManifestKeys, in every insertion order
Manifests ==
  {m \in SeqsUpTo(ManifestKeys \X SignatureLists, Cardinality(ManifestKeys)) :
     DistinctKeys(m)}

InitDiff ==
  /\ NoRun
  /\ pc = "diff"
  /\ \E previous \in Manifests, current \in Manifests :
       args = [previous |-> previous, current |-> current]
  /\ locals = <<>>
  /\ result = <<>>

Diff ==
  /\ pc = "diff"
  /\ result' = diffManifests(args.previous, args.current)
  /\ pc' = "diffed"
  /\ UNCHANGED <<thrown, genVars, args, locals>>

NextDiff == Diff

SpecDiff == InitDiff /\ [][NextDiff]_vars

KeySet(manifest) == {manifest[i][1] : i \in 1..Len(manifest)}
SigSet(manifest, key) == Range(ManifestGet(manifest, key))
NoRepeats(list) == \A i, j \in 1..Len(list) : list[i] = list[j] => i = j

\* C5: added is exactly the keys of current absent from previous, removed
\* exactly the keys of previous absent from current, changed holds a key
\* exactly when both manifests have it and its two signature lists differ as
\* sets, with the signatures only in current as added and those only in
\* previous as removed; order and repetition inside a list change nothing.
C5_DiffIsSetDifference ==
  pc = "diffed" =>
    LET previous == args.previous
        current == args.current
        both == KeySet(previous) \cap KeySet(current)
    IN /\ Range(result.added) = KeySet(current) \ KeySet(previous)
       /\ NoRepeats(result.added)
       /\ Range(result.removed) = KeySet(previous) \ KeySet(current)
       /\ NoRepeats(result.removed)
       /\ DistinctKeys(result.changed)
       /\ KeySet(result.changed)
            = {k \in both : SigSet(previous, k) # SigSet(current, k)}
       /\ \A i \in 1..Len(result.changed) :
            LET key == result.changed[i][1]
                items == result.changed[i][2]
            IN /\ Range(items.added) = SigSet(current, key) \ SigSet(previous, key)
               /\ Range(items.removed) = SigSet(previous, key) \ SigSet(current, key)
               /\ NoRepeats(items.added)
               /\ NoRepeats(items.removed)

\* a key whose list was reordered and repeated is not changed, next to an added key
C5_Witness ==
  /\ pc = "diffed"
  /\ args.previous = << <<KeyA, <<SigF, SigG>>>> >>
  /\ args.current = << <<KeyB, <<SigG>>>>, <<KeyA, <<SigG, SigF>>>> >>
  /\ result = [added |-> <<KeyB>>, removed |-> <<>>, changed |-> <<>>]

\* C6: diff(m, m) is the empty diff, and the keys of a without
\* diff(a, b).removed plus diff(a, b).added are exactly the keys of b.
C6_DiffReflexiveAndReconstructs ==
  pc = "diffed" =>
    /\ (args.previous = args.current
          => result = [added |-> <<>>, removed |-> <<>>, changed |-> <<>>])
    /\ (KeySet(args.previous) \ Range(result.removed)) \cup Range(result.added)
         = KeySet(args.current)

C6_Witness ==
  /\ pc = "diffed"
  /\ args.previous = args.current
  /\ Len(args.previous) = Cardinality(ManifestKeys)
  /\ \A i \in 1..Len(args.previous) : Len(args.previous[i][2]) = MaxSigs
  /\ isEmptyDiff(result)

----------------------------------------------------------------------------
(* renderChangelog under call *)

\* signature lists a changed entry may carry, the empty one included
EntryLists == {<<>>, <<SigF>>, <<SigG, SigF>>}
EntryItems == [added : EntryLists, removed : EntryLists]

ChangedMaps ==
  {m \in SeqsUpTo(ManifestKeys \X EntryItems, Cardinality(ManifestKeys)) :
     DistinctKeys(m)}

PathLists == SeqsUpTo(ManifestKeys, MaxPaths)

InitRender ==
  /\ NoRun
  /\ pc = "render"
  /\ \E added \in PathLists, removed \in PathLists, changed \in ChangedMaps :
       args = [diff |-> [added |-> added, removed |-> removed, changed |-> changed]]
  /\ locals = <<>>
  /\ result = <<>>

Render ==
  /\ pc = "render"
  /\ result' = renderChangelog(args.diff)
  /\ pc' = "rendered"
  /\ UNCHANGED <<thrown, genVars, args, locals>>

NextRender == Render

SpecRender == InitRender /\ [][NextRender]_vars

Positions(text, piece) == {i \in 1..Len(text) : text[i] = piece}
Has(text, piece) == Positions(text, piece) # {}
Before(text, first, second) ==
  \A i \in Positions(text, first), j \in Positions(text, second) : i < j

\* the pieces of text at the positions in 1..Len(text) that satisfy keep, in order
RECURSIVE PickFrom(_, _, _)
PickFrom(text, from, keep) ==
  IF from > Len(text) THEN <<>>
  ELSE (IF from \in keep THEN <<text[from]>> ELSE <<>>)
         \o PickFrom(text, from + 1, keep)

\* the paths of the level-four headings of text, in order of appearance
HeadingPaths(text) ==
  PickFrom(text, 1, {i \in 1..Len(text) : i > 2 /\ text[i - 2] = "#### "})

\* the part of text from position from up to the next level-four heading
RECURSIVE BlockFrom(_, _)
BlockFrom(text, from) ==
  IF from > Len(text) \/ text[from] = "#### " THEN <<>>
  ELSE <<text[from]>> \o BlockFrom(text, from + 1)

\* the bulleted items of a block, in order
BulletItems(block) ==
  PickFrom(block, 1, {i \in 1..Len(block) : i > 2 /\ block[i - 2] = "- "})

SortedByLocale(keys) ==
  \A i, j \in 1..Len(keys) : i < j => localeCompare(keys[i], keys[j]) =< 0

\* C8: renderChangelog returns the empty string exactly when added, removed
\* and changed are all empty; otherwise the Added, Removed and Changed
\* sections appear in that order, each only when non-empty, the changed paths
\* come in sorted order, each carrying only its non-empty sublists, and the
\* text ends with exactly one newline.
C8_RenderSections ==
  pc = "rendered" =>
    LET diff == args.diff
        text == result
        empty == diff.added = <<>> /\ diff.removed = <<>> /\ diff.changed = <<>>
    IN /\ (text = <<>>) <=> empty
       /\ ~empty =>
            /\ Has(text, "### Added") <=> diff.added # <<>>
            /\ Has(text, "### Removed") <=> diff.removed # <<>>
            /\ Has(text, "### Changed") <=> diff.changed # <<>>
            /\ Cardinality(Positions(text, "### Added")) =< 1
            /\ Cardinality(Positions(text, "### Removed")) =< 1
            /\ Cardinality(Positions(text, "### Changed")) =< 1
            /\ Before(text, "### Added", "### Removed")
            /\ Before(text, "### Added", "### Changed")
            /\ Before(text, "### Removed", "### Changed")
            /\ Before(text, "### Changed", "#### ")
            /\ \E keys \in SeqsUpTo(KeySet(diff.changed), Len(diff.changed)) :
                 /\ Len(keys) = Len(diff.changed)
                 /\ Range(keys) = KeySet(diff.changed)
                 /\ SortedByLocale(keys)
                 /\ HeadingPaths(text) = [i \in 1..Len(keys) |-> ToStr(keys[i])]
            /\ \A i \in 1..Len(diff.changed) :
                 LET key == diff.changed[i][1]
                     items == diff.changed[i][2]
                     at == CHOOSE n \in Positions(text, "#### ") :
                             text[n + 2] = ToStr(key)
                     block == BlockFrom(text, at + 1)
                     listed == items.added \o items.removed
                 IN /\ Has(block, "**Added:**") <=> items.added # <<>>
                    /\ Has(block, "**Removed:**") <=> items.removed # <<>>
                    /\ Before(block, "**Added:**", "**Removed:**")
                    /\ BulletItems(block)
                         = [n \in 1..Len(listed) |-> ToStr(listed[n])]
            /\ text[Len(text)] = Newline
            /\ text[Len(text) - 1] # Newline

\* all three sections rendered, two changed paths given out of sorted order,
\* one of them with no added and no removed signature
C8_Witness ==
  /\ pc = "rendered"
  /\ args.diff.added # <<>>
  /\ args.diff.removed # <<>>
  /\ Len(args.diff.changed) = 2
  /\ args.diff.changed[1][1] = KeyB
  /\ args.diff.changed[1][2] = [added |-> <<>>, removed |-> <<>>]
  /\ args.diff.changed[2][2] = [added |-> <<SigF>>, removed |-> <<SigG, SigF>>]
  /\ HeadingPaths(result) = <<"a", "B">>
  /\ result[Len(result)] = Newline

----------------------------------------------------------------------------
(* Version ordering of the semver package, as used by resolveBaseVersion *)

\* the decimal value of a string of digits
RECURSIVE ToNumber(_, _)
ToNumber(digits, acc) ==
  IF digits = <<>> THEN acc
  ELSE ToNumber(Tail(digits), acc * 10 + (IndexIn(Head(digits), DigitChars) - 1))

IsNumeric(id) == id # <<>> /\ \A i \in 1..Len(id) : IsDigit(id[i])

\* the part of s before the first occurrence of sep, and the part after it
BeforeFirst(s, sep) == Head(SplitOn(s, sep, <<>>))
AfterFirst(s, sep) ==
  IF Len(BeforeFirst(s, sep)) = Len(s) THEN <<>>
  ELSE SubSeq(s, Len(BeforeFirst(s, sep)) + 2, Len(s))

\* new SemVer(version): major, minor, patch and the prerelease identifiers;
\* build metadata after "+" is parsed off and takes no part in comparisons
SemVer(version) ==
  LET core == BeforeFirst(version, "+")
      main == SplitOn(BeforeFirst(core, "-"), ".", <<>>)
      pre == AfterFirst(core, "-")
  IN [major |-> ToNumber(main[1], 0),
      minor |-> ToNumber(main[2], 0),
      patch |-> ToNumber(main[3], 0),
      prerelease |-> IF pre = <<>> THEN <<>> ELSE SplitOn(pre, ".", <<>>)]

compareIdentifiers(a, b) ==
  IF IsNumeric(a) /\ IsNumeric(b)
    THEN (IF ToNumber(a, 0) = ToNumber(b, 0) THEN 0
          ELSE IF ToNumber(a, 0) < ToNumber(b, 0) THEN -1 ELSE 1)
  ELSE IF a = b THEN 0
  ELSE IF IsNumeric(a) THEN -1
  ELSE IF IsNumeric(b) THEN 1
  ELSE IF CodeUnitCompare(a, b) < 0 THEN -1 ELSE 1

compareMain(x, y) ==
  LexCompare(<<x.major, x.minor, x.patch>>, <<y.major, y.minor, y.patch>>)

RECURSIVE ComparePreFrom(_, _)
ComparePreFrom(a, b) ==
  IF a = <<>> /\ b = <<>> THEN 0
  ELSE IF b = <<>> THEN 1
  ELSE IF a = <<>> THEN -1
  ELSE IF compareIdentifiers(Head(a), Head(b)) = 0
    THEN ComparePreFrom(Tail(a), Tail(b))
  ELSE compareIdentifiers(Head(a), Head(b))

comparePre(x, y) ==
  IF x.prerelease # <<>> /\ y.prerelease = <<>> THEN -1
  ELSE IF x.prerelease = <<>> /\ y.prerelease # <<>> THEN 1
  ELSE ComparePreFrom(x.prerelease, y.prerelease)

semverCompare(a, b) ==
  IF compareMain(SemVer(a), SemVer(b)) # 0
    THEN compareMain(SemVer(a), SemVer(b))
    ELSE comparePre(SemVer(a), SemVer(b))

semverGt(a, b) == semverCompare(a, b) > 0

semverGte(a, b) == semverCompare(a, b) >= 0

----------------------------------------------------------------------------
(* resolveBaseVersion *)

Pending == <<"pending">>

\* JavaScript truthiness of a string-or-null value
Truthy(v) == v # Null /\ v # <<>>

V_010_1 == <<"0", ".", "1", ".", "0", "-", "1">>
V_010_b == <<"0", ".", "1", ".", "0", "-", "b">>
V_010_b2 == <<"0", ".", "1", ".", "0", "-", "b", ".", "2">>
V_010_b10 == <<"0", ".", "1", ".", "0", "-", "b", ".", "1", "0">>
V_010_ba == <<"0", ".", "1", ".", "0", "-", "b", ".", "a">>
V_010 == <<"0", ".", "1", ".", "0">>
V_010_x == <<"0", ".", "1", ".", "0", "+", "x">>
V_020 == <<"0", ".", "2", ".", "0">>
V_0100 == <<"0", ".", "1", "0", ".", "0">>
V_100_b2 == <<"1", ".", "0", ".", "0", "-", "b", ".", "2">>
V_100 == <<"1", ".", "0", ".", "0">>

\* published versions, lowest precedence first
PublishedVersions ==
  <<V_010_1, V_010_b, V_010_b2, V_010_b10, V_010_ba, V_010, V_010_x,
    V_020, V_0100, V_100_b2, V_100>>

LookupResults == Range(PublishedVersions) \cup {Null}

PrimaryTag == "latest"
Tags == {"latest", "beta"}

InitResolve ==
  /\ NoRun
  /\ pc = "resolve"
  /\ \E tag \in Tags, onLatest \in LookupResults, onBeta \in LookupResults :
       args = [packageName |-> "pkg", tag |-> tag,
               versionLookup |-> [latest |-> onLatest, beta |-> onBeta]]
  /\ locals = <<>>
  /\ result = <<>>

\* tag === "latest": the single lookup is started and its promise returned
StartLatestLookup ==
  /\ pc = "resolve"
  /\ args.tag = PrimaryTag
  /\ locals' = [latestVersion |-> Pending]
  /\ pc' = "await-latest"
  /\ UNCHANGED <<thrown, genVars, args, result>>

LatestPromiseSettles ==
  /\ pc = "await-latest"
  /\ result' = args.versionLookup[PrimaryTag]
  /\ locals' = [locals EXCEPT !.latestVersion = args.versionLookup[PrimaryTag]]
  /\ pc' = "resolved"
  /\ UNCHANGED <<thrown, genVars, args>>

\* Promise.all([...]): both lookups are started before the await
StartBothLookups ==
  /\ pc = "resolve"
  /\ args.tag # PrimaryTag
  /\ locals' = [tagVersion |-> Pending, latestVersion |-> Pending, logged |-> FALSE,
                settled |-> <<>>]
  /\ pc' = "await-all"
  /\ UNCHANGED <<thrown, genVars, args, result>>

TagLookupSettles ==
  /\ pc = "await-all"
  /\ locals.tagVersion = Pending
  /\ locals' = [locals EXCEPT !.tagVersion = args.versionLookup[args.tag],
                              !.settled = Append(@, "tag")]
  /\ UNCHANGED <<pc, thrown, genVars, args, result>>

LatestLookupSettles ==
  /\ pc = "await-all"
  /\ locals.latestVersion = Pending
  /\ locals' = [locals EXCEPT !.latestVersion = args.versionLookup[PrimaryTag],
                              !.settled = Append(@, "latest")]
  /\ UNCHANGED <<pc, thrown, genVars, args, result>>

\* the ties of two equal-precedence versions given to the tag
PickWinnerTieToTag(tagVersion, latestVersion) ==
  IF Truthy(tagVersion) /\ Truthy(latestVersion)
    THEN (IF semverGt(latestVersion, tagVersion) THEN latestVersion ELSE tagVersion)
  ELSE IF tagVersion # Null THEN tagVersion
  ELSE latestVersion

\* the code after the await
PickWinner(tagVersion, latestVersion) ==
  IF Truthy(tagVersion) /\ Truthy(latestVersion)
    THEN (IF semverGte(latestVersion, tagVersion) THEN latestVersion ELSE tagVersion)
  ELSE IF tagVersion # Null THEN tagVersion
  ELSE latestVersion

\* mutant: the await resumes as soon as one promise has settled
ReturnWinnerOnFirst ==
  /\ pc = "await-all"
  /\ locals.tagVersion # Pending \/ locals.latestVersion # Pending
  /\ result' = IF locals.tagVersion # Pending THEN locals.tagVersion
                ELSE locals.latestVersion
  /\ locals' = [locals EXCEPT !.logged = FALSE]
  /\ pc' = "resolved"
  /\ UNCHANGED <<thrown, genVars, args>>

\* the await resumes once both promises have settled
ReturnWinner ==
  /\ pc = "await-all"
  /\ locals.tagVersion # Pending
  /\ locals.latestVersion # Pending
  /\ result' = PickWinner(locals.tagVersion, locals.latestVersion)
  /\ locals' = [locals EXCEPT !.logged =
                  /\ Truthy(locals.tagVersion)
                  /\ Truthy(locals.latestVersion)
                  /\ PickWinner(locals.tagVersion, locals.latestVersion)
                       # locals.tagVersion]
  /\ pc' = "resolved"
  /\ UNCHANGED <<thrown, genVars, args>>

NextResolve ==
  \/ StartLatestLookup
  \/ LatestPromiseSettles
  \/ StartBothLookups
  \/ TagLookupSettles
  \/ LatestLookupSettles
  \/ ReturnWinner

SpecResolve == InitResolve /\ [][NextResolve]_vars

\* precedence of the published versions by the Semantic Versioning rules:
\* a larger number is a later version, equal numbers differ in build
\* metadata only
Precedence(version) ==
  CASE version = V_010_1 -> 1
    [] version = V_010_b -> 2
    [] version = V_010_b2 -> 3
    [] version = V_010_b10 -> 4
    [] version = V_010_ba -> 5
    [] version = V_010 -> 6
    [] version = V_010_x -> 6
    [] version = V_020 -> 7
    [] version = V_0100 -> 8
    [] version = V_100_b2 -> 9
    [] version = V_100 -> 10

\* C7: for the primary channel resolve returns the primary lookup's result;
\* otherwise, when both versions exist, the one of higher precedence and the
\* primary one on a tie; when one exists, that one; when none exists, null.
C7_ResolvePicksNewer ==
  pc = "resolved" =>
    LET channel == args.versionLookup[args.tag]
        primary == args.versionLookup[PrimaryTag]
    IN IF args.tag = PrimaryTag THEN result = primary
       ELSE IF channel # Null /\ primary # Null
         THEN (IF Precedence(channel) > Precedence(primary)
                 THEN result = channel
                 ELSE result = primary)
       ELSE IF channel # Null THEN result = channel
       ELSE IF primary # Null THEN result = primary
       ELSE result = Null

\* a stale beta pointer is superseded by the stable release it led to
C7_Witness ==
  /\ pc = "resolved"
  /\ args.tag = "beta"
  /\ args.versionLookup.beta = V_010_b2
  /\ args.versionLookup.latest = V_010
  /\ result = V_010
  /\ locals.logged

\* C30: for a channel other than the primary one both lookups are started
\* before either result is used, the versions are compared only once both
\* have settled, and the resolved version does not depend on which settled
\* first: it is null or one of the two versions the lookups returned.
C30_BothLookupsAwaited ==
  args.tag # PrimaryTag =>
    /\ pc = "await-all" =>
         /\ DOMAIN locals = {"tagVersion", "latestVersion", "logged", "settled"}
         /\ result = <<>>
         /\ ~locals.logged
    /\ pc = "resolved" =>
         /\ locals.tagVersion = args.versionLookup[args.tag]
         /\ locals.latestVersion = args.versionLookup[PrimaryTag]
         /\ locals.settled \in {<<"tag", "latest">>, <<"latest", "tag">>}
         /\ result = PickWinner(args.versionLookup[args.tag], args.versionLookup[PrimaryTag])
         /\ result \in {Null, args.versionLookup[args.tag], args.versionLookup[PrimaryTag]}

\* the primary lookup settled first and the newer tag version still won
C30_Witness ==
  /\ pc = "resolved"
  /\ args.tag = "beta"
  /\ locals.settled = <<"latest", "tag">>
  /\ args.versionLookup.beta = V_020
  /\ args.versionLookup.latest = V_010
  /\ result = V_020

----------------------------------------------------------------------------
(* matchesAny: a glob pattern is rewritten to a regular expression source, *)
(* compiled, and tested against the file name or the relative path         *)

MaxPatternLen == 3
MaxFileLen == 2

Backslash == "\\"
LineFeed == "\n"

\* the character class of the first replace: . + ^ $ { } ( ) | [ ] and backslash
EscapedChars == {".", "+", "^", "$", "{", "}", "(", ")", "|", "[", "]", Backslash}

\* .replace(/[.+^${}()|[\]\\]/g, "\\$&")
EscapeSpecials(pattern) ==
  Flatten([i \in 1..Len(pattern) |->
             IF pattern[i] \in EscapedChars
               THEN <<Backslash, pattern[i]>> ELSE <<pattern[i]>>])

\* .replace(/\*/g, ".*")
ReplaceStars(s) ==
  Flatten([i \in 1..Len(s) |-> IF s[i] = "*" THEN <<".", "*">> ELSE <<s[i]>>])

\* .replace(/\?/g, ".")
ReplaceQuestionMarks(s) == [i \in 1..Len(s) |-> IF s[i] = "?" THEN "." ELSE s[i]]

RegexSource(pattern) ==
  <<"^">> \o ReplaceQuestionMarks(ReplaceStars(EscapeSpecials(pattern))) \o <<"$">>

\* characters with a meaning of their own in a regular expression source
SyntaxChars == EscapedChars \cup {"*", "?"}

Atom(kind, char) == [kind |-> kind, char |-> char, star |-> FALSE]

\* the atoms of a regular expression body: an escaped character stands for
\* itself, a dot for any character but a line terminator, a star repeats the
\* atom before it; a dangling backslash or star is a SyntaxError, and so is
\* any other unescaped syntax character (none occurs in a RegexSource)
RECURSIVE ParseBody(_, _)
ParseBody(src, atoms) ==
  IF src = <<>> THEN [ok |-> TRUE, atoms |-> atoms]
  ELSE IF Head(src) = Backslash
    THEN (IF Len(src) < 2 THEN [ok |-> FALSE, atoms |-> <<>>]
          ELSE ParseBody(SubSeq(src, 3, Len(src)), Append(atoms, Atom("char", src[2]))))
  ELSE IF Head(src) = "."
    THEN ParseBody(Tail(src), Append(atoms, Atom("any", ".")))
  ELSE IF Head(src) = "*"
    THEN (IF atoms = <<>> \/ atoms[Len(atoms)].star THEN [ok |-> FALSE, atoms |-> <<>>]
          ELSE ParseBody(Tail(src), [atoms EXCEPT ![Len(atoms)].star = TRUE]))
  ELSE IF Head(src) \in SyntaxChars THEN [ok |-> FALSE, atoms |-> <<>>]
  ELSE ParseBody(Tail(src), Append(atoms, Atom("char", Head(src))))

\* new RegExp(source) for a source anchored at both ends
RegExp(source) == ParseBody(SubSeq(source, 2, Len(source) - 1), <<>>)

LineTerminators == {LineFeed}

AtomMatches(atom, c) ==
  IF atom.kind = "any" THEN c \notin LineTerminators ELSE c = atom.char

\* the atoms match all of s
RECURSIVE MatchAll(_, _)
MatchAll(atoms, s) ==
  IF atoms = <<>> THEN s = <<>>
  ELSE IF Head(atoms).star
    THEN \/ MatchAll(Tail(atoms), s)
         \/ s # <<>> /\ AtomMatches(Head(atoms), Head(s)) /\ MatchAll(atoms, Tail(s))
  ELSE s # <<>> /\ AtomMatches(Head(atoms), Head(s)) /\ MatchAll(Tail(atoms), Tail(s))

\* regex.test(target)
RegexTest(regex, target) == MatchAll(regex.atoms, target)

\* pattern.includes("/") ? (relPath ?? filename) : filename
MatchTarget(pattern, filename, relPath) ==
  IF "/" \in Range(pattern)
    THEN (IF relPath = Undefined THEN filename ELSE relPath)
    ELSE filename

RECURSIVE matchesAny(_, _, _)
matchesAny(filename, patterns, relPath) ==
  IF patterns = <<>> THEN [error |-> NoError, value |-> FALSE]
  ELSE LET regex == RegExp(RegexSource(Head(patterns)))
       IN IF ~regex.ok THEN [error |-> <<"SyntaxError">>, value |-> FALSE]
          ELSE IF RegexTest(regex, MatchTarget(Head(patterns), filename, relPath))
            THEN [error |-> NoError, value |-> TRUE]
          ELSE matchesAny(filename, Tail(patterns), relPath)


PatternChars == {"a", "*", "?", ".", "+", "/"}
Patterns == SeqsUpTo(PatternChars, MaxPatternLen)

\* patterns tried two at a time
ListedPatterns ==
  {<<"a">>, <<"*", ".", "a">>, <<"a", "/", "*">>, <<"?", "+">>}

PatternLists ==
  {<<>>} \cup {<<p>> : p \in Patterns}
         \cup {<<p, q>> : p \in ListedPatterns, q \in ListedPatterns}

FileChars == {"a", ".", "+", LineFeed}
FileNames == SeqsUpTo(FileChars, MaxFileLen) \ {<<>>}
SubDir == <<"a", "/">>

\* the file at the source root, in a subdirectory, or with no path given
RelPathsOf(filename) == {Undefined, filename, SubDir \o filename}

InitMatch ==
  /\ NoRun
  /\ pc = "match"
  /\ \E filename \in FileNames, patterns \in PatternLists :
       \E relPath \in RelPathsOf(filename) :
         args = [filename |-> filename, patterns |-> patterns, relPath |-> relPath]
  /\ locals = <<>>
  /\ result = <<>>

Match ==
  /\ pc = "match"
  /\ LET outcome == matchesAny(args.filename, args.patterns, args.relPath)
     IN /\ thrown' = outcome.error
        /\ result' = outcome.value
        /\ pc' = IF outcome.error = NoError THEN "matched" ELSE "failed"
  /\ UNCHANGED <<genVars, args, locals>>

NextMatch == Match

SpecMatch == InitMatch /\ [][NextMatch]_vars

\* the pattern stands for all of s: a star for zero or more characters, a
\* question mark for exactly one, any other character for itself
RECURSIVE GlobMatches(_, _)
GlobMatches(pattern, s) ==
  IF pattern = <<>> THEN s = <<>>
  ELSE IF Head(pattern) = "*"
    THEN GlobMatches(Tail(pattern), s) \/ (s # <<>> /\ GlobMatches(pattern, Tail(s)))
  ELSE IF Head(pattern) = "?" THEN s # <<>> /\ GlobMatches(Tail(pattern), Tail(s))
  ELSE s # <<>> /\ Head(s) = Head(pattern) /\ GlobMatches(Tail(pattern), Tail(s))

\* the relative path for a pattern with a path separator (the file name when
\* no relative path is given), the bare file name for any other pattern
GlobTarget(pattern) ==
  IF "/" \in Range(pattern) /\ args.relPath # Undefined
    THEN args.relPath ELSE args.filename

SomePatternMatches ==
  \E i \in 1..Len(args.patterns) :
    GlobMatches(args.patterns[i], GlobTarget(args.patterns[i]))

\* C9: matchesAny never throws, and it returns true exactly when some pattern
\* matches its whole target, the relative path for a pattern with a path
\* separator and the file name otherwise, with a star standing for zero or
\* more characters, a question mark for exactly one and every other character
\* for itself; it returns false for an empty pattern list.
C9_MatchesGlob ==
  /\ pc # "failed"
  /\ pc = "matched" => (result <=> SomePatternMatches)

----------------------------------------------------------------------------
(* normalizeDirs *)

MaxDirs == 2

DirNames == {<<"x">>, <<"y">>}

\* a config value: unset, one directory, or an array of directories
StringValue(dir) == <<"string", dir>>
ArrayValue(dirs) == <<"array", dirs>>
IsArray(value) == value[1] = "array"

DirValues ==
  {Undefined} \cup {StringValue(d) : d \in DirNames}
              \cup {ArrayValue(ds) : ds \in SeqsUpTo(DirNames, MaxDirs)}

DefaultSrcDir == <<"s", "r", "c">>
DefaultOutDir == <<"o", "u", "t">>

\* Array.isArray(dir) ? dir : [dir ?? fallback]
AsList(value, fallback) ==
  IF IsArray(value) THEN value[2]
  ELSE IF value = Undefined THEN <<fallback>>
  ELSE <<value[2]>>

EmptySrcDirError == <<"srcDir must not be an empty array">>
LengthMismatchError ==
  <<"When both srcDir and outDir are arrays they must have the same length">>

normalizeDirs(srcDir, outDir) ==
  LET srcDirs == AsList(srcDir, DefaultSrcDir)
      outDirs == AsList(outDir, DefaultOutDir)
      expandedOutDirs ==
        IF Len(outDirs) = 1 THEN [i \in 1..Len(srcDirs) |-> outDirs[1]] ELSE outDirs
  IN IF Len(srcDirs) = 0
       THEN [error |-> EmptySrcDirError, value |-> Undefined]
     ELSE IF Len(outDirs) > 1 /\ Len(outDirs) # Len(srcDirs)
       THEN [error |-> LengthMismatchError, value |-> Undefined]
     ELSE [error |-> NoError,
           value |-> [srcDirs |-> srcDirs, outDirs |-> expandedOutDirs]]

InitNormalize ==
  /\ NoRun
  /\ pc = "normalize"
  /\ \E srcDir \in DirValues, outDir \in DirValues :
       args = [srcDir |-> srcDir, outDir |-> outDir]
  /\ locals = <<>>
  /\ result = <<>>

Normalize ==
  /\ pc = "normalize"
  /\ LET outcome == normalizeDirs(args.srcDir, args.outDir)
     IN /\ thrown' = outcome.error
        /\ result' = outcome.value
        /\ pc' = IF outcome.error = NoError THEN "normalized" ELSE "failed"
  /\ UNCHANGED <<genVars, args, locals>>

NextNormalize == Normalize

SpecNormalize == InitNormalize /\ [][NextNormalize]_vars

\* the list a config value stands for
GivenList(value, fallback) ==
  IF value = Undefined THEN <<fallback>>
  ELSE IF value[1] = "string" THEN <<value[2]>>
  ELSE value[2]

\* C10: normalizeDirs fails when the source list is empty or when the output
\* list is neither a single element nor as long as the source list; in every
\* other case it returns the source list unchanged with an output list of
\* the same length, a single output directory repeated once per source.
C10_NormalizeDirs ==
  pc \in {"normalized", "failed"} =>
    LET src == GivenList(args.srcDir, <<"s", "r", "c">>)
        out == GivenList(args.outDir, <<"o", "u", "t">>)
    IN IF src = <<>> \/ (Len(out) # 1 /\ Len(out) # Len(src))
         THEN pc = "failed" /\ thrown # NoError
         ELSE /\ pc = "normalized"
              /\ result.srcDirs = src
              /\ Len(result.outDirs) = Len(src)
              /\ Len(out) = 1 => \A i \in 1..Len(src) : result.outDirs[i] = out[1]
              /\ Len(out) # 1 => result.outDirs = out

----------------------------------------------------------------------------
(* extractArtifact *)

JNum(x) == <<"n", x>>

\* Array.isArray(value) and typeof value === "string" on a parsed JSON value
\* or Undefined; the string of a contractName is a sequence of characters
IsJsonArray(value) == value[1] = "a"
IsJsonString(value) == value[1] = "s"

WhiteSpace == {" ", "\t", LineFeed}

\* mutant: the name is used as it is written
TrimOmitted(s) == s

\* String.prototype.trim
RECURSIVE Trim(_)
Trim(s) ==
  IF s = <<>> THEN s
  ELSE IF Head(s) \in WhiteSpace THEN Trim(Tail(s))
  ELSE IF s[Len(s)] \in WhiteSpace THEN Trim(SubSeq(s, 1, Len(s) - 1))
  ELSE s

RECURSIVE DropTrailingSlashes(_)
DropTrailingSlashes(path) ==
  IF path # <<>> /\ path[Len(path)] = "/"
    THEN DropTrailingSlashes(SubSeq(path, 1, Len(path) - 1))
    ELSE path

EndsWith(s, suffix) ==
  Len(s) >= Len(suffix) /\ SubSeq(s, Len(s) - Len(suffix) + 1, Len(s)) = suffix

\* path.basename(path, suffix) for a path without trailing separator: the
\* last segment, without the suffix when the segment is longer than it; a
\* path that is the suffix itself gives the empty string
Basename(path, suffix) ==
  LET segments == SplitOn(DropTrailingSlashes(path), "/", <<>>)
      last == segments[Len(segments)]
  IN IF path = suffix THEN <<>>
     ELSE IF Len(last) > Len(suffix) /\ EndsWith(last, suffix)
       THEN SubSeq(last, 1, Len(last) - Len(suffix))
     ELSE last

JsonExt == <<".", "j", "s", "o", "n">>

\* null where a record is expected (a record and a tuple cannot be compared)
NullRecord == [null |-> TRUE]

extractArtifact(artifactPath, sourceId, relDir, artifact) ==
  IF ~IsJsonArray(artifact.abi) \/ Len(artifact.abi[2]) = 0 THEN NullRecord
  ELSE LET fallbackName == Basename(artifactPath, JsonExt)
           rawName == IF IsJsonString(artifact.contractName)
                        THEN artifact.contractName[2] ELSE fallbackName
           contractName == Trim(rawName)
       IN IF contractName = <<>> THEN NullRecord
          ELSE [sourceId |-> sourceId, filePath |-> artifactPath,
                contractName |-> contractName, relDir |-> relDir,
                abi |-> artifact.abi[2]]

\* the abi and contractName fields of a parsed artifact: absent or any JSON value
AbiFields ==
  {Undefined, Null, JStr(<<"x">>), JObj(<<>>), JArr(<<>>), JArr(AbiName),
   JArr(AbiName \o AbiSymbol)}
NameFields ==
  {Undefined, Null, JNum(1), JStr(<<>>), JStr(<<" ">>), JStr(<<"\t", LineFeed>>),
   JStr(<<"A">>), JStr(<<" ", "A", " ">>), JStr(<<"A", " ", "b">>)}
ArtifactLikes == [abi : AbiFields, contractName : NameFields]

OutBeta == <<"/", "o", "/", "B", ".", "s", "o", "l", "/">>
ArtifactPaths ==
  {OutBeta \o <<"B">> \o JsonExt, OutBeta \o <<" ">> \o JsonExt,
   OutBeta \o <<" ", "B">> \o JsonExt, OutBeta \o JsonExt, OutBeta \o <<"B">>}

InitExtract ==
  /\ NoRun
  /\ pc = "extract"
  /\ \E artifactPath \in ArtifactPaths, sourceId \in {SrcA, SrcB},
        relDir \in {RootDir, DirTokens}, artifact \in ArtifactLikes :
       args = [artifactPath |-> artifactPath, sourceId |-> sourceId,
               relDir |-> relDir, artifact |-> artifact]
  /\ locals = <<>>
  /\ result = <<>>

Extract ==
  /\ pc = "extract"
  /\ result' = extractArtifact(args.artifactPath, args.sourceId, args.relDir, args.artifact)
  /\ pc' = "extracted"
  /\ UNCHANGED <<thrown, genVars, args, locals>>

NextExtract == Extract

SpecExtract == InitExtract /\ [][NextExtract]_vars

\* s without its leading and trailing white space
Trimmed(s) ==
  LET inked == {i \in 1..Len(s) : s[i] \notin WhiteSpace}
  IN IF inked = {} THEN <<>>
     ELSE SubSeq(s, CHOOSE i \in inked : \A j \in inked : i =< j,
                    CHOOSE i \in inked : \A j \in inked : i >= j)

\* the file name of a path without its .json extension
FileBaseName(path) ==
  LET slashes == {i \in 1..Len(path) : path[i] = "/"}
      from == IF slashes = {} THEN 1
              ELSE 1 + CHOOSE i \in slashes : \A j \in slashes : i >= j
      name == SubSeq(path, from, Len(path))
  IN IF Len(name) > Len(JsonExt) /\ EndsWith(name, JsonExt)
       THEN SubSeq(name, 1, Len(name) - Len(JsonExt)) ELSE name

\* the explicit contract name when it is a string, else the file's base name
ResolvedName ==
  IF args.artifact.contractName[1] = "s"
    THEN args.artifact.contractName[2] ELSE FileBaseName(args.artifactPath)

NoInterface ==
  \/ args.artifact.abi = Undefined
  \/ args.artifact.abi[1] # "a"
  \/ args.artifact.abi = JArr(<<>>)

\* C11: extractArtifact never throws; it returns null exactly when the abi
\* field is missing, not an array or empty, or the resolved contract name is
\* empty after trimming; a returned record has a non-empty abi, a non-empty
\* trimmed contract name, and the given source id and relative directory.
C11_ExtractNullOrValid ==
  pc = "extracted" =>
    /\ thrown = NoError
    /\ (result = NullRecord) <=> (NoInterface \/ Trimmed(ResolvedName) = <<>>)
    /\ result # NullRecord =>
         /\ result.abi # <<>>
         /\ result.abi = args.artifact.abi[2]
         /\ result.contractName # <<>>
         /\ result.contractName = Trimmed(ResolvedName)
         /\ result.sourceId = args.sourceId
         /\ result.relDir = args.relDir

\* a padded explicit name is trimmed and kept
C11_Witness ==
  /\ pc = "extracted"
  /\ args.artifact.contractName = JStr(<<" ", "A", " ">>)
  /\ args.artifact.abi = JArr(AbiName)
  /\ result # NullRecord
  /\ result.contractName = <<"A">>

----------------------------------------------------------------------------
(* discoverArtifacts: the walk over one source *)

SolExt == <<".", "s", "o", "l">>

\* filename.replace(/\.sol$/, "")
StripSol(filename) ==
  IF EndsWith(filename, SolExt)
    THEN SubSeq(filename, 1, Len(filename) - Len(SolExt)) ELSE filename

\* path.dirname of a relative path without trailing separator
Dirname(path) ==
  LET segments == SplitOn(path, "/", <<>>)
  IN IF Len(segments) = 1 THEN <<".">>
     ELSE JoinWith(SubSeq(segments, 1, Len(segments) - 1), <<"/">>)

\* solFiles.sort((a, b) => a.localeCompare(b))
RECURSIVE InsertPath(_, _)
InsertPath(sorted, x) ==
  IF sorted = <<>> THEN <<x>>
  ELSE IF localeCompare(x, Head(sorted)) < 0 THEN <<x>> \o sorted
  ELSE <<Head(sorted)>> \o InsertPath(Tail(sorted), x)

RECURSIVE SortPaths(_)
SortPaths(list) ==
  IF list = <<>> THEN <<>>
  ELSE InsertPath(SortPaths(SubSeq(list, 1, Len(list) - 1)), list[Len(list)])

\* the content of a file: text that is not JSON, the JSON text null, or the
\* JSON text of an object
NotJson == <<"not json">>
JsonNull == <<"json null">>
JsonObject(object) == <<"json object", object>>

\* exists(path) on a file system given by its directories and its files
Exists(fs, path) == path \in fs.dirs \/ path \in DOMAIN fs.files

MissingRepoMessage == <<"Source repo does not exist">>
MissingDirMessage(dir) == <<"Source directory does not exist", dir>>
NoArtifactMessage(relSolPath, artifactPath) == <<"No artifact found for", relSolPath, artifactPath>>
InvalidJsonMessage(artifactPath) == <<"Skipping invalid JSON", artifactPath>>
NoAbiMessage(relSolPath) == <<"Skipping artifact without ABI", relSolPath>>
TypeError == <<"TypeError">>
BuildError == <<"build command failed">>

\* mutant: a missing repo is only ever a warning
MissingRepoAlwaysWarns(onMissingRepo) ==
  [error |-> NoError, value |-> [artifacts |-> <<>>, warnings |-> <<MissingRepoMessage>>]]

\* the branch taken when the repo path does not exist
MissingRepo(onMissingRepo) ==
  IF onMissingRepo = "warn"
    THEN [error |-> NoError,
          value |-> [artifacts |-> <<>>, warnings |-> <<MissingRepoMessage>>]]
    ELSE [error |-> MissingRepoMessage, value |-> Undefined]

\* mutant: the nested location is tried first
ArtifactPathNestedFirst(fs, flatPath, nestedPath) ==
  IF Exists(fs, nestedPath) THEN nestedPath ELSE flatPath

\* (await exists(flatPath)) ? flatPath : nestedPath
ArtifactPath(fs, flatPath, nestedPath) ==
  IF Exists(fs, flatPath) THEN flatPath ELSE nestedPath

\* the body of the loop over solFiles for one file: what it pushes, or throws
VisitFile(fs, source, outDir, relSolPath) ==
  LET filename == Basename(relSolPath, <<>>)
      excludePatterns == IF source.excludePatterns = Undefined
                           THEN <<>> ELSE source.excludePatterns[2]
      contractName == StripSol(filename)
      relDir == Dirname(relSolPath)
      flatPath == PathJoin(outDir, filename \o <<"/">> \o contractName \o JsonExt)
      nestedPath == PathJoin(outDir, relSolPath \o <<"/">> \o contractName \o JsonExt)
      artifactPath == ArtifactPath(fs, flatPath, nestedPath)
      none == [error |-> NoError, artifacts |-> <<>>, warnings |-> <<>>]
  IN IF matchesAny(filename, excludePatterns, relSolPath).value THEN none
     ELSE IF ~Exists(fs, artifactPath)
       THEN [none EXCEPT !.warnings = <<NoArtifactMessage(relSolPath, artifactPath)>>]
     ELSE IF fs.files[artifactPath] = NotJson
       THEN [none EXCEPT !.warnings = <<InvalidJsonMessage(artifactPath)>>]
     ELSE IF fs.files[artifactPath] = JsonNull
       THEN [none EXCEPT !.error = TypeError]
     ELSE LET extracted == extractArtifact(artifactPath, source.id, relDir,
                                           fs.files[artifactPath][2])
          IN IF extracted = NullRecord
               THEN [none EXCEPT !.warnings = <<NoAbiMessage(relSolPath)>>]
               ELSE [none EXCEPT !.artifacts = <<extracted>>]


RepoPath == <<"/", "r">>
DirX == <<"x">>
DirY == <<"y">>
OutO == <<"o">>

\* srcDir, outDir and excludePatterns of the source under discovery
SourceConfigs ==
  {[id |-> SrcA, srcDir |-> srcDir, outDir |-> outDir, excludePatterns |-> exclude] :
     srcDir \in {Undefined, ArrayValue(<<DirX, DirY>>), ArrayValue(<<>>)},
     outDir \in {Undefined, StringValue(OutO)},
     exclude \in {Undefined, ArrayValue(<< <<"t", "/", "*">> >>)}}

SolA == <<"A", ".", "s", "o", "l">>
SolB == <<"t", "/", "B", ".", "s", "o", "l">>
SolC == <<"C", ".", "s", "o", "l">>

\* the .sol files fast-glob finds under a source directory, in its order
SolFilesOf(srcDir) == IF srcDir = DirY THEN <<SolC>> ELSE <<SolB, SolA>>

\* what the build left for one .sol file
ArtifactStates == {"none", "not json", "null", "no abi", "flat", "nested"}

ArtifactFileOf(outDir, relSolPath, state) ==
  LET filename == Basename(relSolPath, <<>>)
      name == StripSol(filename) \o JsonExt
      flat == RepoPath \o <<"/">> \o outDir \o <<"/">> \o filename \o <<"/">> \o name
      nested == RepoPath \o <<"/">> \o outDir \o <<"/">> \o relSolPath \o <<"/">> \o name
      object == [abi |-> JArr(AbiName), contractName |-> Undefined]
  IN CASE state = "none" -> <<>>
       [] state = "not json" -> <<flat, NotJson>>
       [] state = "null" -> <<flat, JsonNull>>
       [] state = "no abi" -> <<flat, JsonObject([object EXCEPT !.abi = JArr(<<>>)])>>
       [] state = "flat" -> <<flat, JsonObject(object)>>
       [] state = "nested" -> <<nested, JsonObject(object)>>

\* the file system with the given source directories and artifact files
FileSystem(repoExists, dirs, artifactFiles) ==
  LET present == {f \in artifactFiles : f # <<>>}
  IN [repo |-> repoExists,
      dirs |-> {RepoPath \o <<"/">> \o d : d \in dirs},
      files |-> [p \in {f[1] : f \in present} |->
                   (CHOOSE f \in present : f[1] = p)[2]]]

NoFiles == FileSystem(FALSE, {}, {})

\* the file systems a source with the given directories can meet
FileSystemsOf(srcDirs, outDirs) ==
  IF srcDirs = <<>> \/ Len(srcDirs) # Len(outDirs) THEN {FileSystem(TRUE, {}, {})}
  ELSE LET slots == {<<i, j>> \in (1..Len(srcDirs)) \X (1..2) :
                       j =< Len(SolFilesOf(srcDirs[i]))}
       IN {FileSystem(TRUE, dirs,
                      {ArtifactFileOf(outDirs[slot[1]],
                                      SolFilesOf(srcDirs[slot[1]])[slot[2]],
                                      states[slot]) : slot \in slots}) :
             dirs \in SUBSET Range(srcDirs), states \in [slots -> ArtifactStates]}

WalkStart == [built |-> FALSE, enumerated |-> <<>>, srcDirs |-> <<>>, outDirs |-> <<>>,
              i |-> 0, solFiles |-> <<>>, j |-> 0, artifacts |-> <<>>, warnings |-> <<>>]

InitDiscover ==
  /\ NoRun
  /\ pc = "discover"
  /\ \E source \in SourceConfigs, runBuild \in BOOLEAN, onMissingRepo \in {"error", "warn"} :
       LET dirs == normalizeDirs(source.srcDir, source.outDir)
       IN \E fs \in {NoFiles} \cup
                    (IF dirs.error = NoError
                       THEN FileSystemsOf(dirs.value.srcDirs, dirs.value.outDirs)
                       ELSE FileSystemsOf(<<>>, <<>>)) :
            args = [source |-> source, repoPath |-> RepoPath, runBuild |-> runBuild,
                    onMissingRepo |-> onMissingRepo, fs |-> fs]
  /\ locals = WalkStart
  /\ result = <<>>


\* const repoExists = await exists(repoPath) and the branch on a missing repo
CheckRepo ==
  /\ pc = "discover"
  /\ IF args.fs.repo
       THEN /\ pc' = IF args.runBuild THEN "build" ELSE "dirs"
            /\ UNCHANGED <<thrown, result>>
       ELSE LET outcome == MissingRepo(args.onMissingRepo)
            IN /\ thrown' = outcome.error
               /\ result' = outcome.value
               /\ pc' = IF outcome.error = NoError THEN "discovered" ELSE "failed"
  /\ UNCHANGED <<genVars, args, locals>>

\* await exec(source.buildCommand, { cwd: repoPath })
BuildSucceeds ==
  /\ pc = "build"
  /\ locals' = [locals EXCEPT !.built = TRUE]
  /\ pc' = "dirs"
  /\ UNCHANGED <<thrown, genVars, args, result>>

BuildFails ==
  /\ pc = "build"
  /\ locals' = [locals EXCEPT !.built = TRUE]
  /\ thrown' = BuildError
  /\ pc' = "failed"
  /\ UNCHANGED <<genVars, args, result>>

\* const { srcDirs, outDirs } = normalizeDirs(source.srcDir, source.outDir)
NormalizeSourceDirs ==
  /\ pc = "dirs"
  /\ LET dirs == normalizeDirs(args.source.srcDir, args.source.outDir)
     IN IF dirs.error # NoError
          THEN /\ thrown' = dirs.error
               /\ pc' = "failed"
               /\ UNCHANGED locals
          ELSE /\ locals' = [locals EXCEPT !.srcDirs = dirs.value.srcDirs,
                                           !.outDirs = dirs.value.outDirs,
                                           !.i = 1]
               /\ pc' = "dir"
               /\ UNCHANGED thrown
  /\ UNCHANGED <<genVars, args, result>>

\* a source directory that does not exist is a warning
SkipMissingDir ==
  /\ pc = "dir"
  /\ locals.i =< Len(locals.srcDirs)
  /\ ~Exists(args.fs, PathJoin(args.repoPath, locals.srcDirs[locals.i]))
  /\ locals' = [locals EXCEPT
                  !.warnings = Append(@, MissingDirMessage(locals.srcDirs[locals.i])),
                  !.i = @ + 1]
  /\ UNCHANGED <<pc, thrown, genVars, args, result>>

\* fg(["**/*.sol"], { cwd: srcDir }) and the sort
EnumerateDir ==
  /\ pc = "dir"
  /\ locals.i =< Len(locals.srcDirs)
  /\ Exists(args.fs, PathJoin(args.repoPath, locals.srcDirs[locals.i]))
  /\ locals' = [locals EXCEPT
                  !.enumerated = Append(@, locals.srcDirs[locals.i]),
                  !.solFiles = SortPaths(SolFilesOf(locals.srcDirs[locals.i])),
                  !.j = 1]
  /\ pc' = "file"
  /\ UNCHANGED <<thrown, genVars, args, result>>

\* one iteration of the loop over solFiles
VisitSolFile ==
  /\ pc = "file"
  /\ locals.j =< Len(locals.solFiles)
  /\ LET outcome == VisitFile(args.fs, args.source,
                              PathJoin(args.repoPath, locals.outDirs[locals.i]),
                              locals.solFiles[locals.j])
     IN IF outcome.error # NoError
          THEN /\ thrown' = outcome.error
               /\ pc' = "failed"
               /\ UNCHANGED locals
          ELSE /\ locals' = [locals EXCEPT !.artifacts = @ \o outcome.artifacts,
                                           !.warnings = @ \o outcome.warnings,
                                           !.j = @ + 1]
               /\ UNCHANGED <<pc, thrown>>
  /\ UNCHANGED <<genVars, args, result>>

LeaveDir ==
  /\ pc = "file"
  /\ locals.j > Len(locals.solFiles)
  /\ locals' = [locals EXCEPT !.i = @ + 1]
  /\ pc' = "dir"
  /\ UNCHANGED <<thrown, genVars, args, result>>

ReturnDiscovered ==
  /\ pc = "dir"
  /\ locals.i > Len(locals.srcDirs)
  /\ result' = [artifacts |-> locals.artifacts, warnings |-> locals.warnings]
  /\ pc' = "discovered"
  /\ UNCHANGED <<thrown, genVars, args, locals>>

NextDiscover ==
  \/ CheckRepo
  \/ BuildSucceeds
  \/ BuildFails
  \/ NormalizeSourceDirs
  \/ SkipMissingDir
  \/ EnumerateDir
  \/ VisitSolFile
  \/ LeaveDir
  \/ ReturnDiscovered

SpecDiscover == InitDiscover /\ [][NextDiscover]_vars

\* C12: when the root path does not exist, discoverArtifacts throws under
\* policy "error" and returns no artifact and exactly one warning under policy
\* "warn"; the build command is not run and no directory is enumerated.
C12_MissingRepoPolicy ==
  ~args.fs.repo =>
    /\ pc \in {"discover", "discovered", "failed"}
    /\ ~locals.built
    /\ locals.enumerated = <<>>
    /\ pc # "discover" =>
         IF args.onMissingRepo = "error"
           THEN pc = "failed" /\ thrown # NoError
           ELSE /\ pc = "discovered"
                /\ thrown = NoError
                /\ result.artifacts = <<>>
                /\ Len(result.warnings) = 1

C12_Witness ==
  /\ ~args.fs.repo
  /\ args.onMissingRepo = "warn"
  /\ args.runBuild
  /\ pc = "discovered"
  /\ Len(result.warnings) = 1

\* the file under visit is excluded by the source's patterns
VisitedIsExcluded ==
  LET relSolPath == locals.solFiles[locals.j]
  IN /\ args.source.excludePatterns # Undefined
     /\ \E k \in 1..Len(args.source.excludePatterns[2]) :
          GlobMatches(args.source.excludePatterns[2][k],
                      IF "/" \in Range(args.source.excludePatterns[2][k])
                        THEN relSolPath ELSE FileBaseName(relSolPath))

\* C13: every enumerated file that is not excluded ends in exactly one
\* artifact appended or exactly one warning appended, keeps what was collected
\* before it, and leaves the walk running.
C13_OneOutcomePerFile ==
  [][(pc = "file" /\ locals.j =< Len(locals.solFiles) /\ ~VisitedIsExcluded) =>
       /\ pc' = "file"
       /\ thrown' = NoError
       /\ locals'.j = locals.j + 1
       /\ \/ /\ Len(locals'.artifacts) = Len(locals.artifacts) + 1
             /\ locals'.warnings = locals.warnings
             /\ SubSeq(locals'.artifacts, 1, Len(locals.artifacts)) = locals.artifacts
          \/ /\ Len(locals'.warnings) = Len(locals.warnings) + 1
             /\ locals'.artifacts = locals.artifacts
             /\ SubSeq(locals'.warnings, 1, Len(locals.warnings)) = locals.warnings]_vars

----------------------------------------------------------------------------
(* Signature formatting (formatParamType, formatAbiItemSignature).         *)
(* An ABI item is a JSON object; its strings are compared and cut as whole *)
(* strings, and a signature is one string.                                 *)

\* object[key] on a JSON object: the value of the property, or Undefined
Field(object, key) ==
  LET props == object[2]
      at == {i \in 1..Len(props) : props[i][1] = key}
  IN IF at = {} THEN Undefined ELSE props[CHOOSE i \in at : TRUE][2]

\* value ?? [] for an array property
ItemsOrNone(value) == IF value = Undefined THEN <<>> ELSE value[2]

\* value ?? "" for a string property
TextOrEmpty(value) == IF value = Undefined THEN "" ELSE value[2]

\* a string or undefined inside a template literal
TemplateText(value) == IF value = Undefined THEN "undefined" ELSE value[2]

\* Array.prototype.join on strings
RECURSIVE JoinText(_, _)
JoinText(texts, sep) ==
  IF texts = <<>> THEN ""
  ELSE IF Len(texts) = 1 THEN texts[1]
  ELSE texts[1] \o sep \o JoinText(Tail(texts), sep)

StartsWith(text, prefix) ==
  Len(text) >= Len(prefix) /\ SubSeq(text, 1, Len(prefix)) = prefix

TupleWord == "tuple"

\* mutant: the array suffix of a tuple type is dropped
TupleSuffixDropped(type) == ""

\* param.type.slice("tuple".length)
TupleSuffix(type) == SubSeq(type, Len(TupleWord) + 1, Len(type))

RECURSIVE formatParamType(_, _)
formatParamType(param, includeIndexed) ==
  LET type == Field(param, "type")[2]
      components == ItemsOrNone(Field(param, "components"))
      base == IF type = TupleWord \/ StartsWith(type, "tuple[")
                THEN "(" \o JoinText([i \in 1..Len(components) |->
                                        formatParamType(components[i], FALSE)], ",")
                     \o ")" \o TupleSuffix(type)
                ELSE type
  IN IF includeIndexed /\ Field(param, "indexed") = JBool(TRUE)
       THEN base \o " indexed" ELSE base

\* null where a signature is expected (a signature is never this string)
NullSignature == "<null>"

ParamTypes(params, includeIndexed) ==
  JoinText([i \in 1..Len(params) |-> formatParamType(params[i], includeIndexed)], ",")

formatAbiItemSignature(item) ==
  LET inputs == ItemsOrNone(Field(item, "inputs"))
      type == Field(item, "type")[2]
      name == TemplateText(Field(item, "name"))
      mut == TextOrEmpty(Field(item, "stateMutability"))
      mutPart == IF mut # "" THEN " " \o mut ELSE ""
  IN CASE type = "function" ->
            LET outputs == ParamTypes(ItemsOrNone(Field(item, "outputs")), FALSE)
                ret == IF Len(outputs) > 0 THEN " returns (" \o outputs \o ")" ELSE ""
            IN "function " \o name \o "(" \o ParamTypes(inputs, FALSE) \o ")"
               \o mutPart \o ret
       [] type = "event" -> "event " \o name \o "(" \o ParamTypes(inputs, TRUE) \o ")"
       [] type = "error" -> "error " \o name \o "(" \o ParamTypes(inputs, FALSE) \o ")"
       [] type = "constructor" ->
            "constructor(" \o ParamTypes(inputs, FALSE) \o ")" \o mutPart
       [] type = "fallback" -> "fallback()"
       [] type = "receive" -> "receive()"
       [] OTHER -> NullSignature

\* Longest parameter list of an item that is formatted
MaxParams == 2

\* a property list that leaves out the properties whose value is undefined
RECURSIVE Defined(_)
Defined(props) ==
  IF props = <<>> THEN <<>>
  ELSE IF Head(props)[2] = Undefined THEN Defined(Tail(props))
  ELSE <<Head(props)>> \o Defined(Tail(props))

AbiParameter(name, type, indexed, components) ==
  JObj(Defined(<< <<"name", name>>, <<"type", JStr(type)>>,
                  <<"indexed", indexed>>, <<"components", components>> >>))

ParamOwner == AbiParameter(JStr("owner"), "address", Undefined, Undefined)
ParamFrom == AbiParameter(JStr("from"), "address", JBool(TRUE), Undefined)
ParamPrice == AbiParameter(JStr("price"), "uint256", JBool(FALSE), Undefined)
ParamLegs ==
  AbiParameter(JStr("legs"), "tuple[2][]", Undefined, JArr(<<ParamFrom, ParamPrice>>))
ParamQuote ==
  AbiParameter(JStr("quote"), "tuple", JBool(TRUE), JArr(<<ParamPrice, ParamLegs>>))
ParamEmpty == AbiParameter(Undefined, "tuple[]", Undefined, Undefined)

ParamPool == {ParamOwner, ParamFrom, ParamQuote, ParamEmpty}

ListsOver(pool, maxLen) ==
  UNION {[1..n -> pool] : n \in 0..maxLen}

ParamLists == ListsOver(ParamPool, MaxParams)

OutputLists == {<<>>, <<ParamPrice>>, <<ParamQuote, ParamOwner>>}

AbiItem(type, name, inputs, outputs, stateMutability) ==
  JObj(Defined(<< <<"type", JStr(type)>>, <<"name", name>>, <<"inputs", inputs>>,
                  <<"outputs", outputs>>, <<"stateMutability", stateMutability>> >>))

ItemKinds ==
  {"function", "event", "error", "constructor", "fallback", "receive", "struct"}

Mutabilities == {"view", "nonpayable", "payable"}

AbiItems ==
  {AbiItem(type, JStr("f"), JArr(inputs), outputs, stateMutability) :
     type \in ItemKinds, inputs \in ParamLists,
     outputs \in {Undefined} \cup {JArr(list) : list \in OutputLists},
     stateMutability \in {Undefined} \cup {JStr(word) : word \in Mutabilities}}

InitFormat ==
  /\ NoRun
  /\ pc = "format"
  /\ \E item \in AbiItems : args = [item |-> item]
  /\ locals = <<>>
  /\ result = <<>>

Format ==
  /\ pc = "format"
  /\ result' = formatAbiItemSignature(args.item)
  /\ pc' = "formatted"
  /\ UNCHANGED <<thrown, genVars, args, locals>>

NextFormat == Format

SpecFormat == InitFormat /\ [][NextFormat]_vars

\* what follows the word tuple in a tuple type
ArraySuffix(type) ==
  CHOOSE suffix \in {SubSeq(type, k, Len(type)) : k \in 1..(Len(type) + 1)} :
    "tuple" \o suffix = type

IsTupleType(type) ==
  type = "tuple" \/ (Len(type) > 6 /\ SubSeq(type, 1, 6) = "tuple["
                     /\ SubSeq(type, Len(type), Len(type)) = "]")

\* the parameter list a property holds, none when the property is absent
ParamsOf(item, key) ==
  IF Field(item, key) = Undefined THEN <<>> ELSE Field(item, key)[2]

RECURSIVE CommaJoined(_)
CommaJoined(texts) ==
  IF texts = <<>> THEN ""
  ELSE IF Tail(texts) = <<>> THEN Head(texts)
  ELSE Head(texts) \o "," \o CommaJoined(Tail(texts))

RECURSIVE ExpandedType(_)
ExpandedType(param) ==
  LET type == Field(param, "type")[2]
      components == ParamsOf(param, "components")
  IN IF IsTupleType(type)
       THEN "(" \o CommaJoined([i \in 1..Len(components) |-> ExpandedType(components[i])])
            \o ")" \o ArraySuffix(type)
       ELSE type

ExpandedTypes(params) ==
  CommaJoined([i \in 1..Len(params) |-> ExpandedType(params[i])])

EventTypes(params) ==
  CommaJoined([i \in 1..Len(params) |->
                 IF Field(params[i], "indexed") = JBool(TRUE)
                   THEN ExpandedType(params[i]) \o " indexed"
                   ELSE ExpandedType(params[i])])

MutabilitySegment(item) ==
  IF Field(item, "stateMutability") = Undefined THEN ""
  ELSE " " \o Field(item, "stateMutability")[2]

ReturnsSegment(item) ==
  IF ParamsOf(item, "outputs") = <<>> THEN ""
  ELSE " returns (" \o ExpandedTypes(ParamsOf(item, "outputs")) \o ")"

----------------------------------------------------------------------------
(* Manifest building (parseAbiFromModuleContent, buildManifest).           *)
(* A module's content is the sequence of pieces that artifactToModule and  *)
(* JSON.stringify emit; JSON.parse reads their text character by character. *)

\* the characters of a string
Chars(text) == [i \in 1..Len(text) |-> SubSeq(text, i, i)]

\* the text of a module content: its pieces in order
RECURSIVE ContentText(_)
ContentText(content) ==
  IF content = <<>> THEN ""
  ELSE IF Len(content) = 1 THEN content[1]
  ELSE LET half == Len(content) \div 2
       IN ContentText(SubSeq(content, 1, half))
          \o ContentText(SubSeq(content, half + 1, Len(content)))

CharAt(text, i) == IF i >= 1 /\ i <= Len(text) THEN SubSeq(text, i, i) ELSE ""

TextAt(text, i, word) ==
  i >= 1 /\ i + Len(word) - 1 <= Len(text) /\ SubSeq(text, i, i + Len(word) - 1) = word

\* text.indexOf(word) and text.lastIndexOf(word), counted from 1; 0 is "not found"
IndexOfText(text, word) ==
  LET hits == {i \in 1..Len(text) : TextAt(text, i, word)}
  IN IF hits = {} THEN 0 ELSE CHOOSE i \in hits : \A j \in hits : i <= j

\* mutant: the first terminator instead of the last one
LastIndexIsFirst(text, word) ==
  LET hits == {i \in 1..Len(text) : TextAt(text, i, word)}
  IN IF hits = {} THEN 0 ELSE CHOOSE i \in hits : \A j \in hits : i <= j

LastIndexOfText(text, word) ==
  LET hits == {i \in 1..Len(text) : TextAt(text, i, word)}
  IN IF hits = {} THEN 0 ELSE CHOOSE i \in hits : \A j \in hits : j <= i

\* white space between two JSON tokens
IsJsonSpace(c) == c \in {" ", "\n", "\t", "\r"}

RECURSIVE SkipSpace(_, _)
SkipSpace(text, i) == IF IsJsonSpace(CharAt(text, i)) THEN SkipSpace(text, i + 1) ELSE i

ParseFailed == <<>>

\* the characters of a string literal after its opening quote: the string and
\* the position after the closing quote. A raw control character, an unknown
\* escape and the end of the text are syntax errors.
RECURSIVE ParseString(_, _, _)
ParseString(text, i, acc) ==
  LET c == CharAt(text, i)
      e == CharAt(text, i + 1)
  IN IF c \in {"", "\n", "\t", "\r"} THEN ParseFailed
     ELSE IF c = "\"" THEN <<acc, i + 1>>
     ELSE IF c # "\\" THEN ParseString(text, i + 1, acc \o c)
     ELSE CASE e \in {"\"", "\\", "/"} -> ParseString(text, i + 2, acc \o e)
            [] e = "n" -> ParseString(text, i + 2, acc \o "\n")
            [] e = "t" -> ParseString(text, i + 2, acc \o "\t")
            [] e = "r" -> ParseString(text, i + 2, acc \o "\r")
            [] OTHER -> ParseFailed

\* a repeated key keeps its first position and takes the last value
SetProp(props, key, value) ==
  IF \E i \in 1..Len(props) : props[i][1] = key
    THEN [i \in 1..Len(props) |-> IF props[i][1] = key THEN <<key, value>> ELSE props[i]]
    ELSE Append(props, <<key, value>>)

RECURSIVE ParseValue(_, _)
RECURSIVE ParseItems(_, _, _)
RECURSIVE ParseProps(_, _, _)

\* JSON.parse of one value starting at position `from`: the value and the
\* position after it, or ParseFailed
ParseValue(text, from) ==
  LET i == SkipSpace(text, from)
      c == CharAt(text, i)
      inner == SkipSpace(text, i + 1)
  IN CASE c = "\"" ->
            LET parsed == ParseString(text, i + 1, "")
            IN IF parsed = ParseFailed THEN ParseFailed ELSE <<JStr(parsed[1]), parsed[2]>>
       [] c = "[" ->
            IF CharAt(text, inner) = "]" THEN <<JArr(<<>>), inner + 1>>
            ELSE ParseItems(text, inner, <<>>)
       [] c = "{" ->
            IF CharAt(text, inner) = "}" THEN <<JObj(<<>>), inner + 1>>
            ELSE ParseProps(text, inner, <<>>)
       [] TextAt(text, i, "true") -> <<JBool(TRUE), i + 4>>
       [] TextAt(text, i, "false") -> <<JBool(FALSE), i + 5>>
       [] TextAt(text, i, "null") -> <<Null, i + 4>>
       [] OTHER -> ParseFailed

ParseItems(text, from, items) ==
  LET item == ParseValue(text, from)
  IN IF item = ParseFailed THEN ParseFailed
     ELSE LET i == SkipSpace(text, item[2])
          IN IF CharAt(text, i) = "," THEN ParseItems(text, i + 1, Append(items, item[1]))
             ELSE IF CharAt(text, i) = "]" THEN <<JArr(Append(items, item[1])), i + 1>>
             ELSE ParseFailed

ParseProps(text, from, props) ==
  LET i == SkipSpace(text, from)
      key == IF CharAt(text, i) = "\"" THEN ParseString(text, i + 1, "") ELSE ParseFailed
  IN IF key = ParseFailed THEN ParseFailed
     ELSE LET colon == SkipSpace(text, key[2])
              value == IF CharAt(text, colon) = ":" THEN ParseValue(text, colon + 1)
                       ELSE ParseFailed
          IN IF value = ParseFailed THEN ParseFailed
             ELSE LET next == SkipSpace(text, value[2])
                  IN IF CharAt(text, next) = ","
                       THEN ParseProps(text, next + 1, SetProp(props, key[1], value[1]))
                     ELSE IF CharAt(text, next) = "}"
                       THEN <<JObj(SetProp(props, key[1], value[1])), next + 1>>
                     ELSE ParseFailed

\* JSON.parse(text): the value, or Null where the code catches the error
JsonParse(text) ==
  LET parsed == ParseValue(text, 1)
  IN IF parsed = ParseFailed THEN Null
     ELSE IF SkipSpace(text, parsed[2]) <= Len(text) THEN Null
     ELSE parsed[1]

AsConst == "] as const;"

\* content.indexOf("["), content.lastIndexOf("] as const;") and the parse of
\* content.slice(start, end + 1)
parseAbiFromModuleContent(content) ==
  LET text == ContentText(content)
      start == IndexOfText(text, "[")
      end == LastIndexOfText(text, AsConst)
  IN IF start = 0 \/ end = 0 THEN Null
     ELSE JsonParse(SubSeq(text, start, end))

\* abi.map(formatAbiItemSignature).filter((s) => s !== null).sort(); a
\* signature in a manifest is a sequence of characters
Signatures8(abi) ==
  LET formatted == [i \in 1..Len(abi) |-> formatAbiItemSignature(abi[i])]
      kept == SelectSeq(formatted, LAMBDA sig : sig # NullSignature)
  IN SortStrings([i \in 1..Len(kept) |-> Chars(kept[i])])

\* the for loop of buildManifest
RECURSIVE ManifestEntries(_)
ManifestEntries(mods) ==
  IF mods = <<>> THEN <<>>
  ELSE LET mod == Head(mods)
           key == StripTs(mod.moduleRelPath)
           abi == parseAbiFromModuleContent(mod.moduleContent)
       IN IF abi = Null THEN ManifestEntries(Tail(mods))
          ELSE <<<<key, Signatures8(abi[2])>>>> \o ManifestEntries(Tail(mods))

\* Object.fromEntries: a key keeps the place of its first entry and the
\* value of its last
FromEntries(entries) ==
  LET firsts == {i \in 1..Len(entries) : \A j \in 1..(i - 1) : entries[j][1] # entries[i][1]}
      kept == SelectSeq([i \in 1..Len(entries) |-> <<i, entries[i]>>],
                        LAMBDA e : e[1] \in firsts)
      LastOf(key) == CHOOSE i \in 1..Len(entries) :
                       entries[i][1] = key /\ \A j \in (i + 1)..Len(entries) : entries[j][1] # key
  IN [i \in 1..Len(kept) |-> <<kept[i][2][1], entries[LastOf(kept[i][2][1])][2]>>]

buildManifest(mods) == FromEntries(SortEntries(ManifestEntries(mods)))

\* Longest module list a manifest is built from
MaxModules == 2

ItemBalance ==
  AbiItem("function", JStr("balance"), JArr(<<ParamOwner>>), JArr(<<ParamPrice>>),
          JStr("view"))
ItemMoved == AbiItem("event", JStr("Moved"), JArr(<<ParamFrom, ParamQuote>>), Undefined, Undefined)
ItemStruct == AbiItem("struct", JStr("Leg"), Undefined, Undefined, Undefined)
ItemOpen ==
  AbiItem("constructor", Undefined, JArr(<<ParamLegs>>), Undefined, JStr("nonpayable"))

ManifestAbis ==
  {<<ItemBalance>>, <<ItemStruct>>, <<ItemMoved, ItemBalance>>,
   <<ItemOpen, ItemStruct, ItemBalance>>}

ManifestArtifacts ==
  {Artifact(SrcA, name, RootDir, abi) :
     name \in {NameAlpha, NameAlphaLower, NameBeta}, abi \in ManifestAbis}

\* artifact lists that pass the dedupe: no two share a dedupe key
ArtifactLists ==
  {list \in ListsOver(ManifestArtifacts, MaxModules) :
     \A i, j \in 1..Len(list) :
       i # j => DedupeKey(list[i].sourceId, list[i].contractName)
                  # DedupeKey(list[j].sourceId, list[j].contractName)}

ModulesOf(artifacts) ==
  [i \in 1..Len(artifacts) |-> artifactToModule(artifacts[i], Undefined)]

InitManifest ==
  /\ NoRun
  /\ pc = "build"
  /\ \E artifacts \in ArtifactLists :
       args = [artifacts |-> artifacts, modules |-> ModulesOf(artifacts)]
  /\ locals = <<>>
  /\ result = <<>>

Build ==
  /\ pc = "build"
  /\ result' = buildManifest(args.modules)
  /\ pc' = "built"
  /\ UNCHANGED <<thrown, genVars, args, locals>>

NextManifest == Build

SpecManifest == InitManifest /\ [][NextManifest]_vars

\* every reordering of a list
Reorderings(list) ==
  {[i \in 1..Len(list) |-> list[p[i]]] : p \in Permutations(1..Len(list))}

\* the signatures of the items of a recognized kind, as a set with counts
SignatureBag(abi) ==
  LET recognized == SelectSeq(abi, LAMBDA item : formatAbiItemSignature(item) # NullSignature)
  IN [sig \in {Chars(formatAbiItemSignature(recognized[i])) : i \in 1..Len(recognized)} |->
        Cardinality({i \in 1..Len(recognized) :
                       Chars(formatAbiItemSignature(recognized[i])) = sig})]

BagOfList(list) ==
  [x \in Range(list) |-> Cardinality({i \in 1..Len(list) : list[i] = x})]

AscendingCodeUnits(list) ==
  \A i \in 1..(Len(list) - 1) : CodeUnitCompare(list[i], list[i + 1]) <= 0

\* C14: the keys of the manifest are the output paths of the modules without
\* the extension, in sorted order; each key holds the sorted signatures of
\* that module's items, items of an unrecognized kind left out; and the
\* manifest is the same for every reordering of the modules and of the items
\* of an interface array.
C14_ManifestCanonical ==
  pc = "built" =>
    /\ Range(ObjectKeys(result)) =
         {StripTs(args.modules[i].moduleRelPath) : i \in 1..Len(args.modules)}
    /\ \A i \in 1..(Len(result) - 1) : localeCompare(result[i][1], result[i + 1][1]) < 0
    /\ \A i \in 1..Len(args.modules) :
         LET signatures == ManifestGet(result, StripTs(args.modules[i].moduleRelPath))
         IN /\ AscendingCodeUnits(signatures)
            /\ BagOfList(signatures) = SignatureBag(args.artifacts[i].abi)
    /\ \A reordered \in Reorderings(args.modules) : buildManifest(reordered) = result
    /\ \A i \in 1..Len(args.artifacts) :
         \A abi \in Reorderings(args.artifacts[i].abi) :
           buildManifest(ModulesOf([args.artifacts EXCEPT ![i].abi = abi])) = result

----------------------------------------------------------------------------
(* The manifest builder of the current changelog library, which formats    *)
(* with formatAbiItem of abitype; its output is pinned by the contract     *)
(* tests of the library.                                                   *)

\* /^tuple(\[\d*\])*$/ on the types met here
RECURSIVE IsArraySuffix(_)
IsArraySuffix(text) ==
  \/ text = ""
  \/ /\ StartsWith(text, "[")
     /\ \E k \in 2..Len(text) :
          /\ SubSeq(text, k, k) = "]"
          /\ \A i \in 2..(k - 1) : IsDigit(SubSeq(text, i, i))
          /\ IsArraySuffix(SubSeq(text, k + 1, Len(text)))

RECURSIVE formatAbiParameter(_)
formatAbiParameter(param) ==
  LET type == Field(param, "type")[2]
      components == ItemsOrNone(Field(param, "components"))
      base == IF StartsWith(type, TupleWord) /\ IsArraySuffix(TupleSuffix(type))
                THEN "(" \o JoinText([i \in 1..Len(components) |->
                                        formatAbiParameter(components[i])], ", ")
                     \o ")" \o TupleSuffix(type)
                ELSE type
      marked == IF Field(param, "indexed") = JBool(TRUE) THEN base \o " indexed" ELSE base
      name == TextOrEmpty(Field(param, "name"))
  IN IF name # "" THEN marked \o " " \o name ELSE marked

formatAbiParameters(params) ==
  JoinText([i \in 1..Len(params) |-> formatAbiParameter(params[i])], ", ")

formatAbiItem(item) ==
  LET inputs == ItemsOrNone(Field(item, "inputs"))
      outputs == ItemsOrNone(Field(item, "outputs"))
      type == Field(item, "type")[2]
      name == TemplateText(Field(item, "name"))
      mut == TextOrEmpty(Field(item, "stateMutability"))
      payable == IF mut = "payable" THEN " payable" ELSE ""
  IN CASE type = "function" ->
            "function " \o name \o "(" \o formatAbiParameters(inputs) \o ")"
            \o (IF mut # "" /\ mut # "nonpayable" THEN " " \o mut ELSE "")
            \o (IF Len(outputs) > 0 THEN " returns (" \o formatAbiParameters(outputs) \o ")"
                ELSE "")
       [] type = "event" -> "event " \o name \o "(" \o formatAbiParameters(inputs) \o ")"
       [] type = "error" -> "error " \o name \o "(" \o formatAbiParameters(inputs) \o ")"
       [] type = "constructor" -> "constructor(" \o formatAbiParameters(inputs) \o ")" \o payable
       [] type = "fallback" -> "fallback() external" \o payable
       [] OTHER -> "receive() external payable"

\* abi.map((item) => formatAbiItem(item)).sort()
SignaturesOf(abi) ==
  SortStrings([i \in 1..Len(abi) |-> Chars(formatAbiItem(abi[i]))])

RECURSIVE NamedManifestEntries(_)
NamedManifestEntries(mods) ==
  IF mods = <<>> THEN <<>>
  ELSE LET mod == Head(mods)
           key == StripTs(mod.moduleRelPath)
           abi == parseAbiFromModuleContent(mod.moduleContent)
       IN IF abi = Null THEN NamedManifestEntries(Tail(mods))
          ELSE <<<<key, SignaturesOf(abi[2])>>>> \o NamedManifestEntries(Tail(mods))

\* buildManifest of the current library
buildManifestCurrent(mods) == FromEntries(SortEntries(NamedManifestEntries(mods)))

\* ways of renaming the parameters of an interface
RenameRules == {"keep", "suffix", "same", "empty", "drop"}

NewName(old, rule) ==
  CASE rule = "keep" -> old
    [] rule = "suffix" -> JStr(TextOrEmpty(old) \o "_")
    [] rule = "same" -> JStr("p")
    [] rule = "empty" -> JStr("")
    [] rule = "drop" -> Undefined

RECURSIVE RenameParam(_, _)
RenameParam(param, rule) ==
  LET components == Field(param, "components")
  IN JObj(Defined(<< <<"name", NewName(Field(param, "name"), rule)>>,
                     <<"type", Field(param, "type")>>,
                     <<"indexed", Field(param, "indexed")>>,
                     <<"components",
                       IF components = Undefined THEN Undefined
                       ELSE JArr([i \in 1..Len(components[2]) |->
                                    RenameParam(components[2][i], rule)])>> >>))

RenameParams(params, rule) ==
  IF params = Undefined THEN Undefined
  ELSE JArr([i \in 1..Len(params[2]) |-> RenameParam(params[2][i], rule)])

\* the same item with its inputs, outputs and tuple components renamed
RenameItem(item, rule) ==
  JObj(Defined(<< <<"type", Field(item, "type")>>, <<"name", Field(item, "name")>>,
                  <<"inputs", RenameParams(Field(item, "inputs"), rule)>>,
                  <<"outputs", RenameParams(Field(item, "outputs"), rule)>>,
                  <<"stateMutability", Field(item, "stateMutability")>> >>))

RenameAbi(abi, rule) == [i \in 1..Len(abi) |-> RenameItem(abi[i], rule)]

InitRename ==
  /\ NoRun
  /\ pc = "build"
  /\ \E artifact \in ManifestArtifacts, rule \in RenameRules :
       args = [before |-> artifactToModule(artifact, Undefined),
               after |-> artifactToModule([artifact EXCEPT !.abi = RenameAbi(@, rule)],
                                          Undefined),
               rule |-> rule]
  /\ locals = <<>>
  /\ result = <<>>

\* the manifest of the published package, the manifest of the working tree
\* and their diff
BuildAndDiff ==
  /\ pc = "build"
  /\ LET previous == buildManifestCurrent(<<args.before>>)
         current == buildManifestCurrent(<<args.after>>)
     IN result' = [previous |-> previous, current |-> current,
                   diff |-> diffManifests(previous, current)]
  /\ pc' = "built"
  /\ UNCHANGED <<thrown, genVars, args, locals>>

NextRename == BuildAndDiff

SpecRename == InitRename /\ [][NextRename]_vars

\* C16: two modules with the same output path whose interfaces differ only
\* in the names of parameters get identical signature lists, and the diff of
\* their manifests is empty.
C16_RenameInvisible ==
  pc = "built" =>
    /\ args.before.moduleRelPath = args.after.moduleRelPath
    /\ result.previous = result.current
    /\ isEmptyDiff(result.diff)

----------------------------------------------------------------------------
\* C17: after a successful run the output directory holds exactly one file
\* per module of the deduplicated set, with that module's content, and
\* nothing else: no file from before the run is left and the number of files
\* equals the reported module count.
C17_OneFilePerModule ==
  pc = "done" =>
    /\ DOMAIN outputDir =
         {PathNormalize(deduped.modules[i].moduleRelPath) : i \in 1..Len(deduped.modules)}
    /\ \A i \in 1..Len(deduped.modules) :
         outputDir[PathNormalize(deduped.modules[i].moduleRelPath)]
           = deduped.modules[i].moduleContent
    /\ DOMAIN outputDir \cap DOMAIN StaleFiles = {}
    /\ Cardinality(DOMAIN outputDir) = returned.moduleCount

----------------------------------------------------------------------------
(* Config loading (loadConfig). The config file is missing, not JSON, the  *)
(* JSON text null, or a JSON object.                                       *)

\* Longest sources array of a config file
MaxSources == 2

NoFile == <<"no file">>

\* !value on a parsed JSON value or Undefined
Falsy(value) == value \in {Undefined, Null, JStr(""), JBool(FALSE)}

\* value ?? fallback
OrElse(value, fallback) == IF value \in {Undefined, Null} THEN fallback ELSE value

\* { ...object, [key]: value }
WithProp(object, key, value) ==
  LET props == object[2]
  IN IF \E i \in 1..Len(props) : props[i][1] = key
       THEN JObj([i \in 1..Len(props) |->
                    IF props[i][1] = key THEN <<key, value>> ELSE props[i]])
       ELSE JObj(Append(props, <<key, value>>))

ReadError == <<"ENOENT">>
SyntaxError == <<"SyntaxError">>
SourcesError == <<"Invalid config: sources must be a non-empty array">>
OutputDirError == <<"Invalid config: outputDir is required">>
MainSourceError(mainSourceId) ==
  <<"Invalid config: mainSource \"", mainSourceId, "\" does not match any source id">>
NeitherError(id) == <<"Source \"", id, "\" must specify either \"repo\" or \"repoPath\"">>
BothError(id) == <<"Source \"", id, "\" cannot specify both \"repo\" and \"repoPath\"">>

\* mutant: a source may give both a repo and a repoPath
SourceErrorBothAllowed(source) ==
  IF Falsy(Field(source, "repo")) /\ Falsy(Field(source, "repoPath"))
    THEN NeitherError(Field(source, "id"))
  ELSE NoError

\* the body of the for loop over parsed.sources
SourceError(source) ==
  IF Falsy(Field(source, "repo")) /\ Falsy(Field(source, "repoPath"))
    THEN NeitherError(Field(source, "id"))
  ELSE IF ~Falsy(Field(source, "repo")) /\ ~Falsy(Field(source, "repoPath"))
    THEN BothError(Field(source, "id"))
  ELSE NoError

RECURSIVE FirstSourceError(_)
FirstSourceError(sources) ==
  IF sources = <<>> THEN NoError
  ELSE IF SourceError(Head(sources)) # NoError THEN SourceError(Head(sources))
  ELSE FirstSourceError(Tail(sources))

DefaultReposDir == JStr(".repos")
DefaultOnMissingRepo == JStr("error")

loadConfig(file) ==
  LET Throw(error) == [error |-> error, value |-> Undefined]
  IN IF file = NoFile THEN Throw(ReadError)
     ELSE IF file = NotJson THEN Throw(SyntaxError)
     ELSE IF file = JsonNull THEN Throw(TypeError)
     ELSE LET parsed == file[2]
              sources == Field(parsed, "sources")
              mainSourceId == Field(parsed, "mainSource")
          IN IF ~IsJsonArray(sources) \/ Len(sources[2]) = 0 THEN Throw(SourcesError)
             ELSE IF Falsy(Field(parsed, "outputDir")) THEN Throw(OutputDirError)
             ELSE IF ~Falsy(mainSourceId)
                     /\ ~\E i \in 1..Len(sources[2]) : Field(sources[2][i], "id") = mainSourceId
               THEN Throw(MainSourceError(mainSourceId))
             ELSE IF FirstSourceError(sources[2]) # NoError
               THEN Throw(FirstSourceError(sources[2]))
             ELSE [error |-> NoError,
                   value |-> WithProp(WithProp(parsed, "reposDir",
                                               OrElse(Field(parsed, "reposDir"),
                                                      DefaultReposDir)),
                                      "onMissingRepo",
                                      OrElse(Field(parsed, "onMissingRepo"),
                                             DefaultOnMissingRepo))]

SourceObjects ==
  {JObj(Defined(<< <<"id", JStr(id)>>, <<"repo", repo>>, <<"repoPath", repoPath>>,
                   <<"buildCommand", JStr("forge build")>> >>)) :
     id \in {"a", "b"}, repo \in {Undefined, JStr("org/repo")},
     repoPath \in {Undefined, JStr(""), JStr("../repo")}}

SourcesValues ==
  {Undefined, JStr("a")} \cup {JArr(list) : list \in ListsOver(SourceObjects, MaxSources)}

ConfigObjects ==
  {JObj(Defined(<< <<"outputDir", outDir>>, <<"mainSource", main>>,
                   <<"reposDir", reposDir>>, <<"onMissingRepo", onMissingRepo>>,
                   <<"sources", sources>> >>)) :
     outDir \in {Undefined, JStr(""), JStr("abis")},
     main \in {Undefined, JStr("a"), JStr("c")},
     reposDir \in {Undefined, JStr(".cache")},
     onMissingRepo \in {Undefined, JStr("warn")},
     sources \in SourcesValues}

ConfigFiles == {NoFile, NotJson, JsonNull} \cup {JsonObject(config) : config \in ConfigObjects}

InitLoad ==
  /\ NoRun
  /\ pc = "load"
  /\ \E file \in ConfigFiles : args = [file |-> file]
  /\ locals = <<>>
  /\ result = <<>>

LoadConfig ==
  /\ pc = "load"
  /\ LET outcome == loadConfig(args.file)
     IN /\ thrown' = outcome.error
        /\ result' = outcome.value
        /\ pc' = IF outcome.error = NoError THEN "loaded" ELSE "failed"
  /\ UNCHANGED <<genVars, args, locals>>

NextLoad == LoadConfig

SpecLoad == InitLoad /\ [][NextLoad]_vars

\* a property that holds a value: not absent and not the empty string
Given(object, key) == Field(object, key) \notin {Undefined, JStr("")}

PropKeys(object) == {object[2][i][1] : i \in 1..Len(object[2])}

ValidConfig(file) ==
  /\ file \notin {NoFile, NotJson, JsonNull}
  /\ LET config == file[2]
         sources == Field(config, "sources")
     IN /\ sources # Undefined
        /\ sources[1] = "a"
        /\ sources[2] # <<>>
        /\ Given(config, "outputDir")
        /\ Given(config, "mainSource") =>
             Field(config, "mainSource") \in {Field(sources[2][i], "id") : i \in 1..Len(sources[2])}
        /\ \A i \in 1..Len(sources[2]) :
             Given(sources[2][i], "repo") # Given(sources[2][i], "repoPath")

\* C19: loadConfig returns a configuration only when sources is a non-empty
\* list, outputDir is present, mainSource, when set, is the id of a source,
\* and every source gives exactly one of repo and repoPath; on every other
\* input it throws and returns nothing. On success reposDir defaults to
\* ".repos", onMissingRepo to "error", and every other field is returned
\* unchanged.
C19_LoadConfig ==
  pc \in {"loaded", "failed"} =>
    IF ValidConfig(args.file)
      THEN LET config == args.file[2]
           IN /\ pc = "loaded" /\ thrown = NoError
              /\ Field(result, "reposDir") =
                   (IF Field(config, "reposDir") = Undefined THEN JStr(".repos")
                    ELSE Field(config, "reposDir"))
              /\ Field(result, "onMissingRepo") =
                   (IF Field(config, "onMissingRepo") = Undefined THEN JStr("error")
                    ELSE Field(config, "onMissingRepo"))
              /\ PropKeys(result) = PropKeys(config) \cup {"reposDir", "onMissingRepo"}
              /\ \A key \in PropKeys(config) \ {"reposDir", "onMissingRepo"} :
                   Field(result, key) = Field(config, key)
      ELSE pc = "failed" /\ thrown # NoError /\ result = Undefined

\* a config with two sources, one by repo and one by repoPath, a main source
\* and no reposDir is loaded with the defaults filled in
C19_Witness ==
  /\ pc = "loaded"
  /\ Len(Field(result, "sources")[2]) = 2
  /\ \E i, j \in 1..2 :
       /\ Given(Field(result, "sources")[2][i], "repo")
       /\ Given(Field(result, "sources")[2][j], "repoPath")
  /\ Field(result, "mainSource") = JStr("a")
  /\ Field(args.file[2], "reposDir") = Undefined
  /\ Field(result, "reposDir") = JStr(".repos")
  /\ Field(result, "onMissingRepo") = JStr("error")

----------------------------------------------------------------------------
(* The changelog command (main of the changelog script). The manifest on   *)
(* disk, the file given with --against and the registry are its inputs;    *)
(* what resolveBaseVersion and fetchManifestFromNpm return is chosen when  *)
(* they are called.                                                        *)

\* mutant: a missing previous manifest is taken to hold one export
OrPlaceholderManifest(previous) ==
  IF previous = Null THEN <<<<KeyA, <<>>>>>> ELSE previous[2]

\* previousManifest ?? {}; a manifest read from a file is JsonObject(manifest)
OrEmptyManifest(previous) == IF previous = Null THEN <<>> ELSE previous[2]

PublishedManifests ==
  {JsonObject(<<<<KeyA, <<SigF>>>>>>), JsonObject(<<<<KeyB, <<SigG, SigF>>>>, <<KeyA, <<>>>>>>)}

AgainstFiles == {Undefined, NoFile, JsonObject(<<<<KeyB, <<SigF>>>>>>)}

OutPaths == {Undefined, <<"CHANGELOG.md">>}

InitChangelog ==
  /\ NoRun
  /\ pc = "read"
  /\ \E current \in {NoFile} \cup {JsonObject(m) : m \in Manifests}, against \in AgainstFiles, out \in OutPaths :
       args = [manifestFile |-> current, against |-> against, out |-> out]
  /\ locals = [current |-> Undefined, previous |-> Undefined, resolved |-> Undefined,
               diff |-> Undefined, stdout |-> <<>>, outFile |-> Undefined, exitCode |-> 0]
  /\ result = <<>>

\* step 1: read the current manifest from disk
ReadCurrent ==
  /\ pc = "read"
  /\ IF args.manifestFile = NoFile
       THEN /\ locals' = [locals EXCEPT !.exitCode = 1]
            /\ pc' = "done"
       ELSE /\ locals' = [locals EXCEPT !.current = args.manifestFile]
            /\ pc' = IF args.against # Undefined THEN "against" ELSE "resolve"
  /\ UNCHANGED <<thrown, genVars, args, result>>

\* step 2 with --against: read the previous manifest from the file
ReadAgainst ==
  /\ pc = "against"
  /\ IF args.against = NoFile
       THEN /\ locals' = [locals EXCEPT !.exitCode = 1]
            /\ pc' = "done"
       ELSE /\ locals' = [locals EXCEPT !.previous = args.against]
            /\ pc' = "diff"
  /\ UNCHANGED <<thrown, genVars, args, result>>

\* step 2 without --against: resolveBaseVersion settles
ResolveBase ==
  /\ pc = "resolve"
  /\ \E version \in {Null, V_100} :
       IF Truthy(version)
         THEN /\ locals' = [locals EXCEPT !.resolved = version]
              /\ pc' = "fetch"
         ELSE /\ locals' = [locals EXCEPT !.resolved = version, !.previous = Null]
              /\ pc' = "diff"
  /\ UNCHANGED <<thrown, genVars, args, result>>

\* fetchManifestFromNpm settles
FetchManifest ==
  /\ pc = "fetch"
  /\ \E manifest \in {Null} \cup PublishedManifests :
       locals' = [locals EXCEPT !.previous = manifest]
  /\ pc' = "diff"
  /\ UNCHANGED <<thrown, genVars, args, result>>

\* step 3: diff and render
DiffAndRender ==
  /\ pc = "diff"
  /\ LET diff == diffManifests(OrEmptyManifest(locals.previous), locals.current[2])
     IN IF isEmptyDiff(diff)
          THEN locals' = [locals EXCEPT !.diff = diff]
          ELSE IF args.out # Undefined
            THEN locals' = [locals EXCEPT !.diff = diff, !.outFile = renderChangelog(diff)]
            ELSE locals' = [locals EXCEPT !.diff = diff, !.stdout = renderChangelog(diff)]
  /\ pc' = "done"
  /\ UNCHANGED <<thrown, genVars, args, result>>

NextChangelog ==
  \/ ReadCurrent
  \/ ReadAgainst
  \/ ResolveBase
  \/ FetchManifest
  \/ DiffAndRender

SpecChangelog == InitChangelog /\ [][NextChangelog]_vars

\* the changelog the command wrote, to the file or to standard output
WrittenChangelog == IF args.out # Undefined THEN locals.outFile ELSE locals.stdout

AllBullets(text) ==
  PickFrom(text, 1, {i \in 1..Len(text) : i > 2 /\ text[i - 2] = "- "})

\* C18: when version resolution returns null, the current manifest is
\* diffed against the empty manifest: every current export path is listed as
\* added and nothing as removed or changed.
C18_FirstReleaseAllAdded ==
  (pc = "done" /\ locals.resolved = Null) =>
    /\ Range(locals.diff.added) = Range(ObjectKeys(locals.current[2]))
    /\ NoRepeats(locals.diff.added)
    /\ locals.diff.removed = <<>>
    /\ locals.diff.changed = <<>>
    /\ locals.current[2] # <<>> =>
         /\ Has(WrittenChangelog, "### Added")
         /\ ~Has(WrittenChangelog, "### Removed")
         /\ ~Has(WrittenChangelog, "### Changed")
         /\ Range(AllBullets(WrittenChangelog))
              = {ToStr(key) : key \in Range(ObjectKeys(locals.current[2]))}

\* a first release with two exports, written to standard output
C18_Witness ==
  /\ pc = "done"
  /\ locals.resolved = Null
  /\ Len(locals.current[2]) = 2
  /\ Len(locals.diff.added) = 2
  /\ args.out = Undefined
  /\ locals.stdout # <<>>

----------------------------------------------------------------------------
(* The generation run over its sources (generateAbis and the CLI entry).   *)
(* What ensureRepo and discoverArtifacts give for a source is chosen when  *)
(* they are called and kept in locals.outcomes.                            *)

ResolveFailedMessage(id) ==
  <<"Failed to resolve repo for source \"", ToStr(id), "\": clone failed">>

\* mutant: the warnings of a source replace those collected so far
PushWarningsReplacing(collected, more) == more

\* warnings.push(...more)
PushWarnings(collected, more) == collected \o more

\* what discoverArtifacts can give for a source whose repo was resolved
DiscoverOutcomes(id) ==
  {[error |-> NoError, artifacts |-> <<>>, warnings |-> <<MissingDirMessage(DirX)>>],
   [error |-> NoError, artifacts |-> <<Artifact(id, NameAlpha, RootDir, AbiName)>>,
    warnings |-> <<>>],
   [error |-> NoError,
    artifacts |-> <<Artifact(id, NameAlpha, RootDir, AbiName),
                    Artifact(id, NameBeta, RootDir, AbiSymbol),
                    Artifact(id, NameAlpha, DirTokens, AbiName)>>,
    warnings |-> <<NoArtifactMessage(SolA, OutO), InvalidJsonMessage(OutO)>>],
   [error |-> BuildError, artifacts |-> <<>>, warnings |-> <<>>]}

SourceIdLists == {list \in ListsOver({SrcA, SrcB}, MaxSources) : list # <<>>}

InitRun ==
  /\ pc = "resolve"
  /\ thrown = NoError
  /\ mainSource = Undefined
  /\ allArtifacts = <<>>
  /\ modules = <<>>
  /\ deduped = [modules |-> <<>>, warnings |-> <<>>]
  /\ warnings = <<>>
  /\ outputDir = StaleFiles
  /\ readme = ReadmeBefore
  /\ manifestFile = ManifestBefore
  /\ returned = Undefined
  /\ \E sources \in SourceIdLists, onMissingRepo \in {"error", "warn"} :
       args = [sources |-> sources, onMissingRepo |-> onMissingRepo]
  /\ locals = [i |-> 1, outcomes |-> <<>>]
  /\ result = <<>>

\* where the for loop over config.sources goes after source i
AfterSource(i) == IF i < Len(args.sources) THEN "resolve" ELSE "collect"

\* ensureRepo settles for source i
ResolveSource ==
  /\ pc = "resolve"
  /\ \E ok \in BOOLEAN :
       LET id == args.sources[locals.i]
           message == ResolveFailedMessage(id)
       IN IF ok
            THEN /\ pc' = "discover"
                 /\ UNCHANGED <<thrown, warnings, locals>>
          ELSE IF args.onMissingRepo = "warn"
            THEN /\ warnings' = Append(warnings, message)
                 /\ locals' = [i |-> locals.i + 1,
                               outcomes |-> Append(locals.outcomes,
                                                   [artifacts |-> <<>>,
                                                    warnings |-> <<message>>])]
                 /\ pc' = AfterSource(locals.i)
                 /\ UNCHANGED thrown
          ELSE /\ thrown' = message
               /\ pc' = "failed"
               /\ UNCHANGED <<warnings, locals>>
  /\ UNCHANGED <<mainSource, allArtifacts, modules, deduped, outputDir, readme,
                 manifestFile, returned, args, result>>

\* discoverArtifacts settles for source i
DiscoverSource ==
  /\ pc = "discover"
  /\ \E discovered \in DiscoverOutcomes(args.sources[locals.i]) :
       IF discovered.error # NoError
         THEN /\ thrown' = discovered.error
              /\ pc' = "failed"
              /\ UNCHANGED <<allArtifacts, warnings, locals>>
         ELSE /\ allArtifacts' = allArtifacts \o discovered.artifacts
              /\ warnings' = PushWarnings(warnings, discovered.warnings)
              /\ locals' = [i |-> locals.i + 1,
                            outcomes |-> Append(locals.outcomes,
                                                [artifacts |-> discovered.artifacts,
                                                 warnings |-> discovered.warnings])]
              /\ pc' = AfterSource(locals.i)
              /\ UNCHANGED thrown
  /\ UNCHANGED <<mainSource, modules, deduped, outputDir, readme, manifestFile, returned,
                 args, result>>

\* the CLI entry: the warnings and the summary, or the failure
ReportRun ==
  /\ pc \in {"done", "failed"}
  /\ result' = IF pc = "done"
                 THEN [warned |-> returned.warnings,
                       logged |-> <<returned.moduleCount, returned.artifactCount>>,
                       exitCode |-> 0]
                 ELSE [warned |-> <<>>, logged |-> <<>>, exitCode |-> 1]
  /\ pc' = "exited"
  /\ UNCHANGED <<thrown, genVars, args, locals>>

NextRun ==
  \/ ResolveSource
  \/ DiscoverSource
  \/ GenerateModules
  \/ writeGeneratedFiles
  \/ updateReadmeTree
  \/ WriteManifest
  \/ ReturnResult
  \/ ReportRun

SpecRun == InitRun /\ [][NextRun]_vars

RECURSIVE RaisedBy(_)
RaisedBy(outcomes) ==
  IF outcomes = <<>> THEN <<>> ELSE Head(outcomes).warnings \o RaisedBy(Tail(outcomes))

RECURSIVE FoundBy(_)
FoundBy(outcomes) ==
  IF outcomes = <<>> THEN <<>> ELSE Head(outcomes).artifacts \o FoundBy(Tail(outcomes))

RunSucceeded == pc = "done" \/ (pc = "exited" /\ result.exitCode = 0)

\* C20: the result handed to the caller holds every warning raised while
\* resolving or discovering a source, in source order, followed by the
\* dedupe warnings; a warning stops neither the later files nor the later
\* sources, and the CLI prints the warnings together after the run.
C20_WarningsAccumulate ==
  RunSucceeded =>
    /\ Len(locals.outcomes) = Len(args.sources)
    /\ returned.warnings = RaisedBy(locals.outcomes) \o deduped.warnings
    /\ allArtifacts = FoundBy(locals.outcomes)
    /\ returned.artifactCount = Len(FoundBy(locals.outcomes))
    /\ pc = "exited" => result.warned = returned.warnings

\* a run whose first source could not be resolved, whose second source gave
\* two discovery warnings and a duplicate, reported by the CLI
C20_Witness ==
  /\ pc = "exited"
  /\ result.exitCode = 0
  /\ Len(args.sources) = 2
  /\ locals.outcomes[1].warnings = <<ResolveFailedMessage(args.sources[1])>>
  /\ Len(locals.outcomes[2].warnings) = 2
  /\ Len(deduped.warnings) = 1
  /\ Len(result.warned) = 4

----------------------------------------------------------------------------
\* C21: every part of the result of diffManifests is sorted, whatever the
\* order of the keys and of the signature lists of the two manifests: the
\* added list, the removed list, the keys of the changed map in iteration
\* order, and the added and removed sublists of each changed entry.
C21_DiffSorted ==
  pc = "diffed" =>
    /\ AscendingCodeUnits(result.added)
    /\ AscendingCodeUnits(result.removed)
    /\ AscendingCodeUnits(ObjectKeys(result.changed))
    /\ \A i \in 1..Len(result.changed) :
         /\ AscendingCodeUnits(result.changed[i][2].added)
         /\ AscendingCodeUnits(result.changed[i][2].removed)

----------------------------------------------------------------------------
(* One source file of the walk (the body of the loop over solFiles), on a  *)
(* file system that may hold the artifact at the flat location, at the     *)
(* nested location, or at both.                                            *)

FlatName == <<"F">>
NestedName == <<"N">>

\* what an artifact file can hold; a JSON object names its contract after
\* the location it was written to
ArtifactContents(name) ==
  {NotJson, JsonNull,
   JsonObject([abi |-> JArr(<<>>), contractName |-> JStr(name)]),
   JsonObject([abi |-> JArr(AbiName), contractName |-> JStr(name)])}

FlatPathOf(outDir, relSolPath) ==
  outDir \o <<"/">> \o Basename(relSolPath, <<>>) \o <<"/">>
  \o StripSol(Basename(relSolPath, <<>>)) \o JsonExt

NestedPathOf(outDir, relSolPath) ==
  outDir \o <<"/">> \o relSolPath \o <<"/">> \o StripSol(Basename(relSolPath, <<>>)) \o JsonExt

\* the file systems with the given contents at the two locations; Undefined
\* leaves a location empty, and the flat content wins where the two
\* locations are one path
ArtifactFiles(outDir, relSolPath, flat, nested) ==
  LET flatPath == FlatPathOf(outDir, relSolPath)
      nestedPath == NestedPathOf(outDir, relSolPath)
      paths == (IF flat # Undefined THEN {flatPath} ELSE {})
               \cup (IF nested # Undefined THEN {nestedPath} ELSE {})
  IN [repo |-> TRUE, dirs |-> {},
      files |-> [p \in paths |->
                   IF p = flatPath /\ flat # Undefined THEN flat ELSE nested]]

VisitOutDir == RepoPath \o <<"/">> \o OutO

InitVisit ==
  /\ NoRun
  /\ pc = "visit"
  /\ \E relSolPath \in {SolA, SolB},
        flat \in {Undefined} \cup ArtifactContents(FlatName),
        nested \in {Undefined} \cup ArtifactContents(NestedName),
        excludePatterns \in {Undefined, ArrayValue(<<<<"t", "/", "*">>>>)} :
       args = [source |-> [id |-> SrcA, excludePatterns |-> excludePatterns],
               outDir |-> VisitOutDir, relSolPath |-> relSolPath,
               fs |-> ArtifactFiles(VisitOutDir, relSolPath, flat, nested)]
  /\ locals = <<>>
  /\ result = <<>>

Visit ==
  /\ pc = "visit"
  /\ LET outcome == VisitFile(args.fs, args.source, args.outDir, args.relSolPath)
     IN /\ thrown' = outcome.error
        /\ result' = [artifacts |-> outcome.artifacts, warnings |-> outcome.warnings]
        /\ pc' = "visited"
  /\ UNCHANGED <<genVars, args, locals>>

NextVisit == Visit

SpecVisit == InitVisit /\ [][NextVisit]_vars

\* the file name or the relative path matches an exclude pattern
VisitedExcluded ==
  args.source.excludePatterns # Undefined
  /\ matchesAny(Basename(args.relSolPath, <<>>), args.source.excludePatterns[2],
                args.relSolPath).value

\* the outcome shows that the file at path was the one read
WasRead(path) ==
  LET content == args.fs.files[path]
  IN /\ \A i \in 1..Len(result.warnings) : result.warnings[i][1] # "No artifact found for"
     /\ content = NotJson => result.warnings = <<InvalidJsonMessage(path)>>
     /\ (content \notin {NotJson, JsonNull} /\ content[2].abi = JArr(AbiName)) =>
          /\ Len(result.artifacts) = 1
          /\ result.artifacts[1].filePath = path
          /\ result.artifacts[1].contractName = content[2].contractName[2]

\* C22: for a source file that is not excluded the flat location is tried
\* first and the nested one only when the flat one is absent: with both
\* present the flat file is read, with only the nested one present it is
\* read, and with neither a no-artifact warning is recorded.
C22_FlatThenNested ==
  (pc = "visited" /\ ~VisitedExcluded) =>
    LET flatPath == FlatPathOf(args.outDir, args.relSolPath)
        nestedPath == NestedPathOf(args.outDir, args.relSolPath)
        files == DOMAIN args.fs.files
    IN /\ flatPath \in files => WasRead(flatPath)
       /\ (flatPath \notin files /\ nestedPath \in files) => WasRead(nestedPath)
       /\ (flatPath \notin files /\ nestedPath \notin files) =>
            /\ result.artifacts = <<>>
            /\ result.warnings = <<NoArtifactMessage(args.relSolPath, nestedPath)>>

\* both locations hold an artifact and the record comes from the flat one
C22_Witness ==
  /\ pc = "visited"
  /\ args.relSolPath = SolB
  /\ Cardinality(DOMAIN args.fs.files) = 2
  /\ Len(result.artifacts) = 1
  /\ result.artifacts[1].contractName = FlatName
  /\ result.artifacts[1].filePath = FlatPathOf(args.outDir, SolB)

----------------------------------------------------------------------------
\* normalizeDirs rejects the directory lists of the source under discovery
DirsRejected == normalizeDirs(args.source.srcDir, args.source.outDir).error # NoError

\* C23: when normalizeDirs would reject the directory lists of the source,
\* discoverArtifacts fails with that error without having checked the file
\* system, run the build step or enumerated a directory.
C23_ConfigErrorBeforeIO ==
  DirsRejected =>
    /\ pc \in {"discover", "failed"}
    /\ ~locals.built
    /\ locals.enumerated = <<>>
    /\ pc = "failed" =>
         thrown = normalizeDirs(args.source.srcDir, args.source.outDir).error

----------------------------------------------------------------------------
(* Round trip of a module's content (artifactToModule, then                *)
(* parseAbiFromModuleContent).                                             *)

\* strings an interface may hold, the parser's own delimiters among them
TrickyStrings == {"f", "[", "] as const;", "a\"b", "c\\", "x\ny", "", "{ }"}

\* the keys an object may hold next to "type"
TrickyKeys == {k \in TrickyStrings : k # "type"}

RoundTripAbi(text, key) ==
  <<JObj(<< <<"type", JStr(text)>>,
            <<key, JArr(<<JStr(key), JBool(TRUE), Null, JObj(<<>>), JArr(<<>>)>>)>> >>),
    JStr(text)>>

NamePunct == <<"_">>

RoundTripArtifacts ==
  {Artifact(SrcA, name, RootDir, RoundTripAbi(text, key)) :
     name \in {NameAlpha, NamePunct}, text \in TrickyStrings, key \in TrickyKeys}

\* contents that hold no array literal before a terminator, or whose slice
\* between the first "[" and the last "] as const;" is not JSON
BrokenContents ==
  { <<"">>,
    <<"const foo = 42;">>,
    <<"export const x = [not json] as const;\n">>,
    <<"export const x = [] as const\n">>,
    <<"] as const; [">>,
    <<"export const x = [\"a\",] as const;\n">>,
    <<"export const x = [{\"a\": tru}] as const;\n">>,
    <<"export const x = [\"a\\q\"] as const;\n">>,
    <<"export const x = [\"a\"] as const; // [x] as const;\n">>,
    <<"export const x = [\"a\" \"b\"] as const;\n">>,
    <<"export const x = [{\"a\" true}] as const;\n">>,
    <<"export const x = [\"a] as const;\n">> }

InitParse ==
  /\ NoRun
  /\ pc = "parse"
  /\ \/ \E artifact \in RoundTripArtifacts :
          args = [generated |-> TRUE, abi |-> artifact.abi,
                  content |-> artifactToModule(artifact, Undefined).moduleContent]
     \/ \E content \in BrokenContents :
          args = [generated |-> FALSE, abi |-> <<>>, content |-> content]
  /\ locals = <<>>
  /\ result = <<>>

\* the try/catch of parseAbiFromModuleContent swallows every error
Parse ==
  /\ pc = "parse"
  /\ result' = parseAbiFromModuleContent(args.content)
  /\ pc' = "parsed"
  /\ UNCHANGED <<thrown, genVars, args, locals>>

NextParse == Parse

SpecParse == InitParse /\ [][NextParse]_vars

\* C24: parsing the content that artifactToModule wrote for an artifact gives
\* back an array equal to the artifact's interface, whatever strings its items
\* hold; content with no array literal before the terminator, or whose array
\* text is not JSON, parses to null; parsing never throws.
C24_RoundTrip ==
  pc = "parsed" =>
    /\ thrown = NoError
    /\ args.generated => result = JArr(args.abi)
    /\ ~args.generated => result = Null

\* an interface whose strings hold the terminator and a quote came back whole
C24_Witness ==
  /\ pc = "parsed"
  /\ args.generated
  /\ args.abi = RoundTripAbi("] as const;", "a\"b")
  /\ result = JArr(RoundTripAbi("] as const;", "a\"b"))

----------------------------------------------------------------------------
(* The naming functions on their own: one identifier, one function, and    *)
(* splitWords applied again to what toCamelCase returned.                  *)

NameAbi == <<"a", "b", "i">>
NameContract == <<"c", "o", "n", "t", "r", "a", "c", "t">>
NameWbera == <<"W", "B", "E", "R", "A">>
NameErc20Token == <<"E", "R", "C", "2", "0", "T", "o", "k", "e", "n">>
NameBgtStaker == <<"B", "G", "T", "S", "t", "a", "k", "e", "r">>

Identifiers ==
  ContractNames \cup {NameAbi, NameContract, NameWbera, NameErc20Token, NameBgtStaker}

InitNaming ==
  /\ NoRun
  /\ pc = "name"
  /\ \E input \in Identifiers : args = [input |-> input]
  /\ locals = <<>>
  /\ result = <<>>

SplitWords ==
  /\ pc = "name"
  /\ result' = splitWords(args.input)
  /\ pc' = "split"
  /\ UNCHANGED <<thrown, genVars, args, locals>>

ToCamelCase ==
  /\ pc = "name"
  /\ result' = toCamelCase(args.input)
  /\ pc' = "camel"
  /\ UNCHANGED <<thrown, genVars, args, locals>>

ToPascalCase ==
  /\ pc = "name"
  /\ result' = toPascalCase(args.input)
  /\ pc' = "pascal"
  /\ UNCHANGED <<thrown, genVars, args, locals>>

ToKebabCase ==
  /\ pc = "name"
  /\ result' = toKebabCase(args.input)
  /\ pc' = "kebab"
  /\ UNCHANGED <<thrown, genVars, args, locals>>

\* splitWords on the identifier toCamelCase returned
SplitCamel ==
  /\ pc = "camel"
  /\ locals' = splitWords(result)
  /\ pc' = "resplit"
  /\ UNCHANGED <<thrown, genVars, args, result>>

NextNaming == SplitWords \/ ToCamelCase \/ ToPascalCase \/ ToKebabCase \/ SplitCamel

SpecNaming == InitNaming /\ [][NextNaming]_vars

\* C25: splitting toCamelCase(x) into words gives the same lowercase tokens as
\* splitting the contract name x itself.
C25_CamelKeepsTokens ==
  pc = "resplit" => locals = splitWords(args.input)

\* the positions where a token starts: the first letter or digit after the
\* start or a separator, an uppercase letter after a lowercase letter or a
\* digit, and the last letter of an uppercase run that a lowercase letter follows
TokenStarts(s) ==
  {i \in 1..Len(s) :
     /\ IsAlnum(s[i])
     /\ \/ i = 1
        \/ ~IsAlnum(s[i - 1])
        \/ (IsLower(s[i - 1]) \/ IsDigit(s[i - 1])) /\ IsUpper(s[i])
        \/ IsUpper(s[i - 1]) /\ IsUpper(s[i]) /\ i < Len(s) /\ IsLower(s[i + 1])}

TokenEnd(s, i) ==
  CHOOSE j \in i..Len(s) :
    /\ \A k \in (i + 1)..j : IsAlnum(s[k]) /\ k \notin TokenStarts(s)
    /\ j = Len(s) \/ ~IsAlnum(s[j + 1]) \/ (j + 1) \in TokenStarts(s)

ExpectedWords(s) ==
  LET starts == TokenStarts(s)
      nth(n) == CHOOSE i \in starts : Cardinality({j \in starts : j < i}) = n - 1
  IN [n \in 1..Cardinality(starts) |-> LowerAll(SubSeq(s, nth(n), TokenEnd(s, nth(n))))]

\* the segmentation half of C26: the tokens are the runs of letters and
\* digits cut at the two kinds of boundary, lowercased; none is empty; a name
\* of uppercase letters only is one token; no token starts at a digit that
\* follows a letter or a digit
C26_Segments ==
  pc = "split" =>
    /\ result = ExpectedWords(args.input)
    /\ \A n \in 1..Len(result) :
         /\ result[n] # <<>>
         /\ \A k \in 1..Len(result[n]) : IsLower(result[n][k]) \/ IsDigit(result[n][k])
    /\ (\A i \in 1..Len(args.input) : IsUpper(args.input[i]))
         => result = <<LowerAll(args.input)>>
    /\ \A i \in 2..Len(args.input) :
         IsDigit(args.input[i]) /\ IsAlnum(args.input[i - 1])
           => i \notin TokenStarts(args.input)

NoWords == splitWords(args.input) = <<>>

\* C26 as stated: the segmentation, and the three fallbacks returned exactly
\* when the token list is empty.
C26_FallbackExactlyWhenEmpty ==
  /\ C26_Segments
  /\ pc = "camel" => (result = NameAbi <=> NoWords)
  /\ pc = "pascal" => (result = toPascalCase(<<>>) <=> NoWords)
  /\ pc = "kebab" => (result = <<>> <=> NoWords)

\* C26, amended: the segmentation; an empty token list always gives "abi",
\* "Contract" and the empty string; the empty string comes from nothing else,
\* while "abi" and "Contract" are also what a name whose only token is abi or
\* contract gives.
C26_FallbackWhenEmpty ==
  /\ C26_Segments
  /\ pc = "camel" =>
       /\ NoWords => result = NameAbi
       /\ result = NameAbi => (NoWords \/ splitWords(args.input) = <<NameAbi>>)
  /\ pc = "pascal" =>
       /\ NoWords => result = toPascalCase(<<>>)
       /\ result = toPascalCase(<<>>) =>
            (NoWords \/ splitWords(args.input) = <<NameContract>>)
  /\ pc = "kebab" => (result = <<>> <=> NoWords)

\* an uppercase run closed before a capitalized word, with a digit kept
C26_Witness ==
  /\ pc = "split"
  /\ args.input = NameErc20Token
  /\ result = << <<"e", "r", "c", "2", "0">>, <<"t", "o", "k", "e", "n">> >>

----------------------------------------------------------------------------
(* The changelog command against a registry whose lookups may fail:        *)
(* fetchVersionFromNpm, resolveBaseVersion, fetchManifestFromNpm step by   *)
(* step, and the rest of main.                                             *)

ExecFailed == <<"exec failed">>
Stdout(value) == <<"stdout", value>>

\* JSON.parse(stdout.trim()) in a try/catch, a string kept and anything else null
parseNpmVersionOutput(stdout) ==
  IF stdout = NotJson THEN Null
  ELSE IF stdout[1] = "s" THEN stdout[2]
  ELSE Null

\* what "npm view <pkg>@<tag> version --json" may do
ViewReplies ==
  { ExecFailed, Stdout(NotJson), Stdout(JStr(V_010_b2)), Stdout(JStr(V_100)),
    Stdout(JArr(<<JStr(V_010), JStr(V_100)>>)) }

fetchVersionFromNpm(reply) ==
  IF reply = ExecFailed THEN Null ELSE parseNpmVersionOutput(reply[2])

\* resolveBaseVersion with fetchVersionFromNpm as its lookup
resolveBaseVersion(tag, replies) ==
  IF tag = PrimaryTag THEN fetchVersionFromNpm(replies[PrimaryTag])
  ELSE PickWinner(fetchVersionFromNpm(replies[tag]), fetchVersionFromNpm(replies[PrimaryTag]))

TmpDir == <<"t", "m", "p">>
Tarball == <<"p", ".", "t", "g", "z">>
TgzExt == <<".", "t", "g", "z">>

\* what "npm pack" may leave in the temporary directory
PackedFiles == {<<>>, <<Tarball>>, <<TmpDir, Tarball>>}

\* the abi-manifest.json that "tar" may extract
PackedManifests == {NoFile, NotJson} \cup PublishedManifests

\* mutant: the temporary directory is left behind
RemoveDirKept(dirs, dir) == dirs

\* fs.rm(tmpDir, { recursive: true, force: true })
RemoveDir(dirs, dir) == dirs \ {dir}

InitLookup ==
  /\ NoRun
  /\ pc = "resolve"
  /\ \E tag \in Tags, onLatest \in ViewReplies, onBeta \in ViewReplies,
        current \in PublishedManifests :
       args = [tag |-> tag, current |-> current,
               replies |-> [latest |-> onLatest, beta |-> onBeta]]
  /\ locals = [resolved |-> Undefined, tmpDirs |-> {}, files |-> <<>>, failedAt |-> "",
               fetched |-> Undefined, previous |-> Undefined, diff |-> Undefined,
               stdout |-> <<>>, exitCode |-> 0]
  /\ result = <<>>

\* main, step 2 without --against: the version to diff against
ResolveFromRegistry ==
  /\ pc = "resolve"
  /\ LET resolvedVersion == resolveBaseVersion(args.tag, args.replies)
     IN IF Truthy(resolvedVersion)
          THEN /\ locals' = [locals EXCEPT !.resolved = resolvedVersion]
               /\ pc' = "mkdtemp"
          ELSE /\ locals' = [locals EXCEPT !.resolved = resolvedVersion, !.previous = Null]
               /\ pc' = "diff"
  /\ UNCHANGED <<thrown, genVars, args, result>>

\* fetchManifestFromNpm: fs.mkdtemp
MakeTempDir ==
  /\ pc = "mkdtemp"
  /\ locals' = [locals EXCEPT !.tmpDirs = locals.tmpDirs \cup {TmpDir}]
  /\ pc' = "pack"
  /\ UNCHANGED <<thrown, genVars, args, result>>

\* npm pack: it fails, or leaves files in the temporary directory
NpmPack ==
  /\ pc = "pack"
  /\ \/ /\ locals' = [locals EXCEPT !.failedAt = "pack", !.fetched = Null]
        /\ pc' = "finally"
     \/ /\ \E files \in PackedFiles : locals' = [locals EXCEPT !.files = files]
        /\ pc' = "find"
  /\ UNCHANGED <<thrown, genVars, args, result>>

\* files.find((f) => f.endsWith(".tgz")); if (!tarball) return null
FindTarball ==
  /\ pc = "find"
  /\ IF \E i \in 1..Len(locals.files) : EndsWith(locals.files[i], TgzExt)
       THEN /\ pc' = "extract"
            /\ UNCHANGED locals
       ELSE /\ locals' = [locals EXCEPT !.failedAt = "find", !.fetched = Null]
            /\ pc' = "finally"
  /\ UNCHANGED <<thrown, genVars, args, result>>

\* tar, fs.readFile and JSON.parse, any of which may throw into the catch
ExtractManifest ==
  /\ pc = "extract"
  /\ \/ locals' = [locals EXCEPT !.failedAt = "tar", !.fetched = Null]
     \/ \E packed \in PackedManifests :
          IF packed = NoFile
            THEN locals' = [locals EXCEPT !.failedAt = "read", !.fetched = Null]
          ELSE IF packed = NotJson
            THEN locals' = [locals EXCEPT !.failedAt = "parse", !.fetched = Null]
          ELSE locals' = [locals EXCEPT !.fetched = packed]
  /\ pc' = "finally"
  /\ UNCHANGED <<thrown, genVars, args, result>>

\* the finally block, then the return into main
RemoveTempDir ==
  /\ pc = "finally"
  /\ locals' = [locals EXCEPT !.tmpDirs = RemoveDir(locals.tmpDirs, TmpDir),
                              !.previous = locals.fetched]
  /\ pc' = "diff"
  /\ UNCHANGED <<thrown, genVars, args, result>>

\* main, step 3
FinishRun ==
  /\ pc = "diff"
  /\ LET diff == diffManifests(OrEmptyManifest(locals.previous), args.current[2])
     IN locals' = [locals EXCEPT !.diff = diff, !.stdout = renderChangelog(diff)]
  /\ pc' = "done"
  /\ UNCHANGED <<thrown, genVars, args, result>>

NextLookup ==
  \/ ResolveFromRegistry
  \/ MakeTempDir
  \/ NpmPack
  \/ FindTarball
  \/ ExtractManifest
  \/ RemoveTempDir
  \/ FinishRun

SpecLookup == InitLookup /\ [][NextLookup]_vars

\* the version a channel holds, a failed lookup counting as none
VersionOn(channel) ==
  IF args.replies[channel] = ExecFailed THEN Null
  ELSE parseNpmVersionOutput(args.replies[channel][2])

OtherChannel(channel) == IF channel = "beta" THEN "latest" ELSE "beta"

\* C27: a failed version lookup makes resolution return the other channel's
\* version or null; a manifest fetch that fails at any step leaves the baseline
\* null; the run ends without an error and exit code, and no temporary
\* directory is left once the fetch has returned.
C27_LookupFailureNotFatal ==
  /\ thrown = NoError
  /\ locals.exitCode = 0
  /\ pc # "resolve" =>
       /\ (args.tag = PrimaryTag /\ args.replies[PrimaryTag] = ExecFailed)
            => locals.resolved = Null
       /\ \A channel \in Tags :
            (args.tag # PrimaryTag /\ args.replies[channel] = ExecFailed)
              => locals.resolved = VersionOn(OtherChannel(channel))
  /\ (pc \in {"diff", "done"} /\ locals.failedAt # "") => locals.previous = Null
  /\ pc \in {"diff", "done"} => locals.tmpDirs = {}
  /\ (pc = "done" /\ locals.previous = Null)
       => locals.diff = diffManifests(<<>>, args.current[2])

\* the tag lookup failed, the pack succeeded but the manifest was unreadable
C27_Witness ==
  /\ pc = "done"
  /\ args.tag = "beta"
  /\ args.replies["beta"] = ExecFailed
  /\ locals.resolved = V_100
  /\ locals.failedAt = "parse"
  /\ locals.previous = Null
  /\ locals.tmpDirs = {}

----------------------------------------------------------------------------
(* The loop of generateAbis over its sources, each awaited step with a     *)
(* start and a settle, and the walk of discoverArtifacts as one step.      *)

SequencedIds == {SrcA, SrcB, SrcNested}

\* the source lists of a configuration: distinct ids
SequencedSources ==
  {list \in ListsOver(SequencedIds, MaxSources) :
     list # <<>> /\ \A i, j \in 1..Len(list) : i # j => list[i] # list[j]}

SequencedSource(id) ==
  [id |-> id, srcDir |-> ArrayValue(<<DirX, DirY>>), outDir |-> StringValue(OutO),
   excludePatterns |-> Undefined]

\* the repositories a source may resolve to: a source directory may be
\* missing and each file may have its artifact or not
SequencedFileSystems ==
  {FileSystem(TRUE, dirs,
              {ArtifactFileOf(OutO, SolA, states[1]), ArtifactFileOf(OutO, SolB, states[2]),
               ArtifactFileOf(OutO, SolC, states[3])}) :
     dirs \in {{DirX, DirY}, {DirY}},
     states \in {<<"flat", "flat", "flat">>, <<"none", "flat", "flat">>,
                 <<"flat", "none", "none">>}}

\* the loop over solFiles
RECURSIVE WalkFiles(_, _, _, _)
WalkFiles(fs, source, outDir, solFiles) ==
  IF solFiles = <<>> THEN [artifacts |-> <<>>, warnings |-> <<>>]
  ELSE LET first == VisitFile(fs, source, outDir, Head(solFiles))
           rest == WalkFiles(fs, source, outDir, Tail(solFiles))
       IN [artifacts |-> first.artifacts \o rest.artifacts,
           warnings |-> first.warnings \o rest.warnings]

\* the loop over the source directories
RECURSIVE WalkDirs(_, _, _, _, _)
WalkDirs(fs, source, srcDirs, outDirs, i) ==
  IF i > Len(srcDirs) THEN [artifacts |-> <<>>, warnings |-> <<>>]
  ELSE LET rest == WalkDirs(fs, source, srcDirs, outDirs, i + 1)
           here == IF ~Exists(fs, PathJoin(RepoPath, srcDirs[i]))
                     THEN [artifacts |-> <<>>, warnings |-> <<MissingDirMessage(srcDirs[i])>>]
                     ELSE WalkFiles(fs, source, PathJoin(RepoPath, outDirs[i]),
                                    SortPaths(SolFilesOf(srcDirs[i])))
       IN [artifacts |-> here.artifacts \o rest.artifacts,
           warnings |-> here.warnings \o rest.warnings]

\* mutant: the artifacts of a source go in front of those collected so far
PushArtifactsInFront(collected, more) == more \o collected

\* allArtifacts.push(...discovered.artifacts)
PushArtifacts(collected, more) == collected \o more

InitSequence ==
  /\ NoRun
  /\ pc = "sources"
  /\ \E sources \in SequencedSources, onMissingRepo \in {"error", "warn"},
        runBuild \in BOOLEAN :
       /\ args = [sources |-> sources, onMissingRepo |-> onMissingRepo,
                  runBuild |-> runBuild]
       /\ locals = [i |-> 1, status |-> [k \in 1..Len(sources) |-> "waiting"],
                    fs |-> NoFiles]
  /\ result = <<>>

SequenceFrame ==
  UNCHANGED <<mainSource, modules, deduped, outputDir, readme, manifestFile, returned,
              args, result>>

StatusIs(status) ==
  /\ pc = "sources"
  /\ locals.i =< Len(args.sources)
  /\ locals.status[locals.i] = status

\* resolvedPath = await ensureRepo(...): the call
StartEnsureRepo ==
  /\ StatusIs("waiting")
  /\ locals' = [locals EXCEPT !.status[locals.i] = "resolving"]
  /\ SequenceFrame
  /\ UNCHANGED <<pc, thrown, allArtifacts, warnings>>

\* ensureRepo settles: the repository, or the catch block
EnsureRepoSettles ==
  /\ StatusIs("resolving")
  /\ \/ /\ \E fs \in SequencedFileSystems :
             locals' = [locals EXCEPT !.status[locals.i] = "resolved", !.fs = fs]
        /\ UNCHANGED <<pc, thrown, warnings>>
     \/ /\ args.onMissingRepo = "warn"
        /\ warnings' = Append(warnings, ResolveFailedMessage(args.sources[locals.i]))
        /\ locals' = [locals EXCEPT !.status[locals.i] = "skipped", !.i = @ + 1]
        /\ UNCHANGED <<pc, thrown>>
     \/ /\ args.onMissingRepo # "warn"
        /\ thrown' = ResolveFailedMessage(args.sources[locals.i])
        /\ pc' = "failed"
        /\ UNCHANGED <<locals, warnings>>
  /\ SequenceFrame
  /\ UNCHANGED allArtifacts

\* discoverArtifacts: await exec(source.buildCommand), the call
StartBuild ==
  /\ StatusIs("resolved")
  /\ args.runBuild
  /\ locals' = [locals EXCEPT !.status[locals.i] = "building"]
  /\ SequenceFrame
  /\ UNCHANGED <<pc, thrown, allArtifacts, warnings>>

BuildSettles ==
  /\ StatusIs("building")
  /\ \/ /\ locals' = [locals EXCEPT !.status[locals.i] = "built"]
        /\ UNCHANGED <<pc, thrown>>
     \/ /\ thrown' = BuildError
        /\ pc' = "failed"
        /\ UNCHANGED locals
  /\ SequenceFrame
  /\ UNCHANGED <<allArtifacts, warnings>>

\* discoverArtifacts: the walk over the directory pairs begins
StartWalk ==
  /\ (StatusIs("resolved") /\ ~args.runBuild) \/ StatusIs("built")
  /\ locals' = [locals EXCEPT !.status[locals.i] = "walking"]
  /\ SequenceFrame
  /\ UNCHANGED <<pc, thrown, allArtifacts, warnings>>

\* discoverArtifacts settles and its artifacts and warnings are pushed
WalkSettles ==
  /\ StatusIs("walking")
  /\ LET source == SequencedSource(args.sources[locals.i])
         dirs == normalizeDirs(source.srcDir, source.outDir).value
         discovered == WalkDirs(locals.fs, source, dirs.srcDirs, dirs.outDirs, 1)
     IN /\ allArtifacts' = PushArtifacts(allArtifacts, discovered.artifacts)
        /\ warnings' = PushWarnings(warnings, discovered.warnings)
  /\ locals' = [locals EXCEPT !.status[locals.i] = "done", !.i = @ + 1]
  /\ SequenceFrame
  /\ UNCHANGED <<pc, thrown>>

\* the loop over config.sources ends
LeaveSources ==
  /\ pc = "sources"
  /\ locals.i > Len(args.sources)
  /\ pc' = "collected"
  /\ SequenceFrame
  /\ UNCHANGED <<thrown, allArtifacts, warnings, locals>>

NextSequence ==
  \/ StartEnsureRepo
  \/ EnsureRepoSettles
  \/ StartBuild
  \/ BuildSettles
  \/ StartWalk
  \/ WalkSettles
  \/ LeaveSources

SpecSequence == InitSequence /\ [][NextSequence]_vars

\* where an artifact came from: its source's place in the configuration, its
\* directory pair and its path under the source directory
SourcePlace(artifact) ==
  CHOOSE k \in 1..Len(args.sources) : args.sources[k] = artifact.sourceId

RelSolPath(artifact) ==
  (IF artifact.relDir = RootDir THEN <<>> ELSE artifact.relDir \o <<"/">>)
  \o artifact.contractName \o <<".", "s", "o", "l">>

DirPlace(artifact) ==
  CHOOSE d \in 1..2 : RelSolPath(artifact) \in Range(SolFilesOf(<<DirX, DirY>>[d]))

ComesBefore(a, b) ==
  \/ SourcePlace(a) < SourcePlace(b)
  \/ SourcePlace(a) = SourcePlace(b) /\ DirPlace(a) < DirPlace(b)
  \/ /\ SourcePlace(a) = SourcePlace(b)
     /\ DirPlace(a) = DirPlace(b)
     /\ localeCompare(RelSolPath(a), RelSolPath(b)) < 0

\* C28: while a step of one source is under way or done, every earlier source
\* has finished all its steps and no later source has started any; the
\* collected artifacts are ordered by source, then by directory pair, then by
\* sorted relative path.
C28_OneSourceAtATime ==
  /\ \A k \in 1..Len(args.sources) :
       /\ locals.status[k] # "waiting" =>
            \A earlier \in 1..(k - 1) : locals.status[earlier] \in {"done", "skipped"}
       /\ locals.status[k] \notin {"done", "skipped"} =>
            \A later \in (k + 1)..Len(args.sources) : locals.status[later] = "waiting"
  /\ \A p, q \in 1..Len(allArtifacts) :
       p < q => ComesBefore(allArtifacts[p], allArtifacts[q])

\* two sources, b before a, each with all three artifacts
C28_Witness ==
  /\ pc = "collected"
  /\ args.sources = <<SrcB, SrcA>>
  /\ Len(allArtifacts) = 6
  /\ [k \in 1..6 |-> allArtifacts[k].sourceId] = <<SrcB, SrcB, SrcB, SrcA, SrcA, SrcA>>
  /\ [k \in 1..3 |-> RelSolPath(allArtifacts[k])] = <<SolA, SolB, SolC>>

----------------------------------------------------------------------------
(* diffManifests in both directions on the same two manifests. *)

\* diffManifests(current, previous), after diffManifests(previous, current)
DiffBack ==
  /\ pc = "diffed"
  /\ locals' = diffManifests(args.current, args.previous)
  /\ pc' = "mirrored"
  /\ UNCHANGED <<thrown, genVars, args, result>>

NextMirror == Diff \/ DiffBack

SpecMirror == InitDiff /\ [][NextMirror]_vars

\* C29: the diff taken in the other direction has added and removed swapped
\* and a changed map with the same keys whose added and removed sublists are
\* swapped; the added keys, the removed keys and the changed keys of a diff
\* are pairwise disjoint.
C29_MirrorDiff ==
  pc = "mirrored" =>
    /\ locals.added = result.removed
    /\ locals.removed = result.added
    /\ KeySet(locals.changed) = KeySet(result.changed)
    /\ Len(locals.changed) = Len(result.changed)
    /\ \A key \in KeySet(result.changed) :
         /\ ManifestGet(locals.changed, key).added = ManifestGet(result.changed, key).removed
         /\ ManifestGet(locals.changed, key).removed = ManifestGet(result.changed, key).added
    /\ Range(result.added) \cap Range(result.removed) = {}
    /\ Range(result.added) \cap KeySet(result.changed) = {}
    /\ Range(result.removed) \cap KeySet(result.changed) = {}

\* two changed keys, one of which only lost a signature, met in the other order
C29_Witness ==
  /\ pc = "mirrored"
  /\ ObjectKeys(result.changed) = <<KeyA, KeyB>>
  /\ ObjectKeys(locals.changed) = <<KeyB, KeyA>>
  /\ ManifestGet(result.changed, KeyA).added = <<>>
  /\ ManifestGet(locals.changed, KeyA).removed = <<>>

====
